---- MODULE Spec2Model ----
(***************************************************************************)
(* Trace-assembly core of the n8n / LangWatch integration.                 *)
(*                                                                         *)
(* Two implementations of the same core live in the repository and both    *)
(* are modelled, selected by the variable `variant`:                       *)
(*   "modular" : trace-manager.js + langwatch-client.js + the workflow /   *)
(*               node instrumentation + index.js (signal handlers)         *)
(*   "direct"  : n8n-langwatch-direct.js (everything in one closure)       *)
(*                                                                         *)
(* JavaScript values are tagged records; strings are sequences of          *)
(* one-character strings so that includes / startsWith / substring can be  *)
(* computed as the code computes them.                                     *)
(***************************************************************************)
EXTENDS Integers, Sequences, FiniteSets, TLC

(***************************************************************************)
(* Bounds of the model                                                     *)
(***************************************************************************)
\* calls of the wrapped processRunExecutionData / runNode the host makes
MaxRuns == 2

MaxSteps == 1

\* the same when the steps of one run are followed on their own
SingleRun == 1

MaxRunSteps == 2

\* the last value of the clock
MaxClock == 1

\* responses other than 2xx the network gives while runs and steps go on
MaxFaults == 1

\* the same when one send is followed on its own, and the timeouts among them
MaxSendFaults == 3

MaxTimeouts == 1

(***************************************************************************)
(* JavaScript values                                                       *)
(***************************************************************************)
Undefined == [t |-> "undefined"]

Null == [t |-> "null"]

Str(s) == [t |-> "string", s |-> s]

Num(n) == [t |-> "number", n |-> n]

Bool(b) == [t |-> "boolean", b |-> b]

Obj(f) == [t |-> "object", f |-> f]

Arr(a) == [t |-> "array", a |-> a]

EmptyObj == Obj(<<>>)

IsNullish(v) == v.t \in {"undefined", "null"}

\* typeof v === 'object'
TypeofObject(v) == v.t \in {"null", "object", "array"}

\* ToBoolean
Truthy(v) ==
  CASE v.t = "undefined" -> FALSE
    [] v.t = "null"      -> FALSE
    [] v.t = "string"    -> v.s # <<>>
    [] v.t = "number"    -> v.n # 0
    [] v.t = "boolean"   -> v.b
    [] OTHER             -> TRUE

\* v[k] on a value that is not null/undefined (the caller checks that)
Get(v, k) ==
  IF v.t = "object" /\ k \in DOMAIN v.f THEN v.f[k] ELSE Undefined

\* v?.[k]
OptGet(v, k) == IF IsNullish(v) THEN Undefined ELSE Get(v, k)

\* a && b   and   a || b
And(a, b) == IF Truthy(a) THEN b ELSE a

Or(a, b) == IF Truthy(a) THEN a ELSE b

\* const name = e; ... : e is computed once and the statements B that follow
\* read it by name
Let(e, B(_)) == B(e)

\* arr[i] (0-based) and arr.length
At(v, i) ==
  IF v.t = "array" /\ i + 1 \in DOMAIN v.a THEN v.a[i + 1] ELSE Undefined

Length(v) ==
  CASE v.t = "array"  -> Num(Len(v.a))
    [] v.t = "string" -> Num(Len(v.s))
    [] OTHER          -> Undefined

(***************************************************************************)
(* Strings as character sequences                                          *)
(***************************************************************************)
\* s.startsWith(p)
StartsWith(s, p) == Len(p) <= Len(s) /\ SubSeq(s, 1, Len(p)) = p

\* s.indexOf(p), 1-based, 0 when absent
IndexOf(s, p) ==
  IF \E i \in 1..(Len(s) - Len(p) + 1) : SubSeq(s, i, i + Len(p) - 1) = p
  THEN CHOOSE i \in 1..(Len(s) - Len(p) + 1) :
         /\ SubSeq(s, i, i + Len(p) - 1) = p
         /\ \A j \in 1..(i - 1) : SubSeq(s, j, j + Len(p) - 1) # p
  ELSE 0

\* s.includes(p)
Includes(s, p) == IndexOf(s, p) # 0

UpperCase == <<"A","B","C","D","E","F","G","H","I","J","K","L","M",
               "N","O","P","Q","R","S","T","U","V","W","X","Y","Z">>

LowerCase == <<"a","b","c","d","e","f","g","h","i","j","k","l","m",
               "n","o","p","q","r","s","t","u","v","w","x","y","z">>

LowerChar(c) ==
  IF \E i \in 1..26 : UpperCase[i] = c
  THEN LowerCase[CHOOSE i \in 1..26 : UpperCase[i] = c]
  ELSE c

\* s.toLowerCase()
ToLowerCase(s) == [i \in 1..Len(s) |-> LowerChar(s[i])]

Digits == <<"0","1","2","3","4","5","6","7","8","9">>

\* the regular expression class \w
IsWordChar(c) ==
  \/ \E i \in 1..26 : UpperCase[i] = c \/ LowerCase[i] = c
  \/ \E i \in 1..10 : Digits[i] = c
  \/ c = "_"

\* the characters as one TLA+ string (an object key)
RECURSIVE ToKey(_)
ToKey(s) == IF s = <<>> THEN "" ELSE Head(s) \o ToKey(Tail(s))

(***************************************************************************)
(* String literals of the source                                           *)
(***************************************************************************)
L_eq == <<"=">>

L_json == <<"$","j","s","o","n",".">>

L_now == <<"$","n","o","w",".","f","o","r","m","a","t">>

L_open == <<"{","{">>

L_close == <<"}","}">>

L_fmtDay == <<"$","n","o","w",".","f","o","r","m","a","t","(","'","c","c","c","c","'",")">>

L_fmtStamp == <<"$","n","o","w",".","f","o","r","m","a","t","(","'","y","y","y","y","-","M","M","-","d","d"," ","H","H",":","m","m","'",")">>

L_ai == <<"a","i">>

L_openai == <<"o","p","e","n","a","i">>

L_llm == <<"l","l","m">>

L_gpt == <<"g","p","t">>

L_agent == <<"a","g","e","n","t">>

L_chat == <<"c","h","a","t">>

L_completion == <<"c","o","m","p","l","e","t","i","o","n">>

L_langchain == <<"l","a","n","g","c","h","a","i","n">>

L_textDash == <<"t","e","x","t","-">>

L_davinci == <<"d","a","v","i","n","c","i">>

L_claude == <<"c","l","a","u","d","e">>

L_gemini == <<"g","e","m","i","n","i">>

L_mistral == <<"m","i","s","t","r","a","l">>

L_llama == <<"l","l","a","m","a">>

L_anthropic == <<"a","n","t","h","r","o","p","i","c">>

L_google == <<"g","o","o","g","l","e">>

L_meta == <<"m","e","t","a">>

L_gpt4 == <<"g","p","t","-","4">>

L_n8n == <<"n","8","n">>

L_unknown == <<"u","n","k","n","o","w","n">>

L_noOutput == <<"N","o"," ","o","u","t","p","u","t"," ","d","e","t","e","c","t","e","d">>

L_errorPrefix == <<"E","r","r","o","r",":"," ">>

L_workflowPrefix == <<"W","o","r","k","f","l","o","w",":"," ">>

L_langchainAgent == <<"@","n","8","n","/","n","8","n","-","n","o","d","e","s","-","l","a","n","g","c","h","a","i","n",".","a","g","e","n","t">>

L_langchainLlm == <<"@","n","8","n","/","n","8","n","-","n","o","d","e","s","-","l","a","n","g","c","h","a","i","n",".","l","l","m">>

\* what the clock of the process renders for "now": the full weekday name
\* and the local timestamp yyyy-MM-dd HH:mm
L_weekday == <<"M","o","n","d","a","y">>

L_stamp == <<"2","0","2","6","-","0","1","-","0","5"," ","0","9",":","3","0">>

(***************************************************************************)
(* utils/helpers.js                                                        *)
(***************************************************************************)
\* Math.ceil(n / 4)
CeilDiv4(n) == (n + 3) \div 4

\* String(text).length for the values the extractors produce
StringLength(v) ==
  CASE v.t = "string" -> Len(v.s)
    [] v.t = "number" -> 1
    [] v.t = "boolean" -> IF v.b THEN 4 ELSE 5
    [] OTHER -> 15   \* "[object Object]"

estimateTokenCount(text) ==
  IF ~Truthy(text) THEN 0 ELSE CeilDiv4(StringLength(text))

WhiteSpace == {" ", "\t", "\n"}

RECURSIVE SkipWs(_, _)
SkipWs(s, j) ==
  IF j <= Len(s) /\ s[j] \in WhiteSpace THEN SkipWs(s, j + 1) ELSE j

\* index of the last character of a match of  \{\{\s*<lit>\s*\}\}  that
\* starts at the first character of s, 0 when there is none
TemplateMatchEnd(s, lit) ==
  IF ~StartsWith(s, L_open) THEN 0
  ELSE Let(SkipWs(s, 3), LAMBDA j :
       Let(SkipWs(s, j + Len(lit)), LAMBDA k :
         IF /\ j + Len(lit) - 1 <= Len(s)
            /\ SubSeq(s, j, j + Len(lit) - 1) = lit
            /\ k + 1 <= Len(s)
            /\ SubSeq(s, k, k + 1) = L_close
         THEN k + 1
         ELSE 0))

\* s.replace(/\{\{\s*<lit>\s*\}\}/g, rep)
RECURSIVE ReplaceTemplate(_, _, _)
ReplaceTemplate(s, lit, rep) ==
  IF s = <<>> THEN <<>>
  ELSE Let(TemplateMatchEnd(s, lit), LAMBDA e :
         IF e > 0
         THEN rep \o ReplaceTemplate(SubSeq(s, e + 1, Len(s)), lit, rep)
         ELSE <<Head(s)>> \o ReplaceTemplate(Tail(s), lit, rep))

\* the length of the longest prefix of s made of \w characters
RECURSIVE WordPrefixLen(_)
WordPrefixLen(s) ==
  IF s # <<>> /\ IsWordChar(Head(s)) THEN 1 + WordPrefixLen(Tail(s)) ELSE 0

\* actualExpr.match(/\$json\.(\w+)/)[1], <<>> when there is no match
RECURSIVE JsonFieldMatch(_)
JsonFieldMatch(s) ==
  IF Len(s) < Len(L_json) THEN <<>>
  ELSE Let(SubSeq(s, Len(L_json) + 1, Len(s)), LAMBDA rest :
         IF StartsWith(s, L_json) /\ WordPrefixLen(rest) > 0
         THEN SubSeq(rest, 1, WordPrefixLen(rest))
         ELSE JsonFieldMatch(Tail(s)))

\* the same with no resolution at all
resolveExpressionVerbatim(expr, data) == expr

resolveExpression(expr, data) ==
  IF expr.t # "string" THEN expr
  ELSE IF StartsWith(expr.s, L_eq)
  THEN Let(SubSeq(expr.s, 2, Len(expr.s)), LAMBDA actualExpr :
       Let(JsonFieldMatch(actualExpr), LAMBDA fieldName :
         IF /\ Includes(actualExpr, L_json)
            /\ fieldName # <<>>
            /\ Truthy(data)
            /\ Get(data, ToKey(fieldName)) # Undefined
         THEN Get(data, ToKey(fieldName))
         ELSE IF Includes(actualExpr, L_now)
         THEN Str(ReplaceTemplate(ReplaceTemplate(actualExpr, L_fmtDay, L_weekday),
                                  L_fmtStamp, L_stamp))
         ELSE Str(actualExpr)))
  ELSE expr

extractSystemMessage(parameters) ==
  IF ~Truthy(parameters) THEN Str(<<>>)
  ELSE IF Truthy(And(Get(parameters, "options"),
                     OptGet(Get(parameters, "options"), "systemMessage")))
  THEN resolveExpression(Get(Get(parameters, "options"), "systemMessage"), EmptyObj)
  ELSE IF Truthy(Get(parameters, "systemMessage"))
  THEN resolveExpression(Get(parameters, "systemMessage"), EmptyObj)
  ELSE IF Truthy(Get(parameters, "system"))
  THEN resolveExpression(Get(parameters, "system"), EmptyObj)
  ELSE Str(<<>>)

\* v.length > 0
LengthGt0(v) ==
  \/ v.t = "array" /\ Len(v.a) > 0
  \/ v.t = "string" /\ Len(v.s) > 0

Source(value, priority) == [value |-> value, priority |-> priority]

\* the candidates a JSON body contributes: one per truthy field, in the order
\* the code pushes them
FieldSources(json, pChat, pMessage, pInput) ==
  (IF Truthy(Get(json, "chatInput")) THEN <<Source(Get(json, "chatInput"), pChat)>> ELSE <<>>)
  \o (IF Truthy(Get(json, "message")) THEN <<Source(Get(json, "message"), pMessage)>> ELSE <<>>)
  \o (IF Truthy(Get(json, "input")) THEN <<Source(Get(json, "input"), pInput)>> ELSE <<>>)

\* candidates from executionData.data.main[0]; ok = FALSE when the code raises
IncomingSources(executionData) ==
  Let(Get(executionData, "data"), LAMBDA data :
  Let(OptGet(data, "main"), LAMBDA main :
    IF ~(Truthy(data) /\ Truthy(main) /\ LengthGt0(main))
    THEN [ok |-> TRUE, v |-> <<>>]
    ELSE Let(At(main, 0), LAMBDA inputData :
           IF inputData.t = "array" /\ Len(inputData.a) > 0
           THEN IF IsNullish(At(inputData, 0))
                THEN [ok |-> FALSE, v |-> <<>>]
                ELSE IF Truthy(Get(At(inputData, 0), "json"))
                THEN Let(Get(At(inputData, 0), "json"), LAMBDA json :
                       [ok |-> TRUE,
                        v |-> FieldSources(json, 10, 9, 8) \o <<Source(json, 1)>>])
                ELSE [ok |-> TRUE, v |-> <<Source(inputData, 5)>>]
           ELSE IF TypeofObject(inputData)
           THEN [ok |-> TRUE, v |-> <<Source(inputData, 5)>>]
           ELSE [ok |-> TRUE, v |-> <<>>])))

\* candidates from node.parameters
ParameterSources(node) ==
  Let(Get(node, "parameters"), LAMBDA params :
    IF ~Truthy(params) THEN <<>>
    ELSE (IF Truthy(Get(params, "text")) THEN <<Source(Get(params, "text"), 3)>> ELSE <<>>)
      \o (IF Truthy(Get(params, "prompt")) THEN <<Source(Get(params, "prompt"), 4)>> ELSE <<>>)
      \o (IF Truthy(Get(params, "message")) THEN <<Source(Get(params, "message"), 4)>> ELSE <<>>)
      \o (IF Truthy(Get(params, "input")) THEN <<Source(Get(params, "input"), 4)>> ELSE <<>>)
      \o (IF Truthy(And(Get(params, "options"), OptGet(Get(params, "options"), "input")))
          THEN <<Source(Get(Get(params, "options"), "input"), 6)>> ELSE <<>>))

\* candidates from runExecutionData.resultData.runData[node.name]
HistorySources(node, runExecutionData) ==
  Let(OptGet(runExecutionData, "resultData"), LAMBDA resultData :
  Let(OptGet(resultData, "runData"), LAMBDA runData :
  Let(Get(node, "name"), LAMBDA name :
    IF ~(Truthy(runExecutionData) /\ Truthy(resultData) /\ Truthy(runData) /\ Truthy(name))
    THEN [ok |-> TRUE, v |-> <<>>]
    ELSE Let(IF name.t = "string" THEN Get(runData, ToKey(name.s)) ELSE Undefined,
             LAMBDA nodeData :
      IF ~(Truthy(nodeData) /\ LengthGt0(nodeData))
      THEN [ok |-> TRUE, v |-> <<>>]
      ELSE IF nodeData.t # "array" THEN [ok |-> TRUE, v |-> <<>>]
      ELSE Let(At(nodeData, Len(nodeData.a) - 1), LAMBDA latestRun :
        IF IsNullish(latestRun)
        THEN [ok |-> FALSE, v |-> <<>>]
        ELSE Let(Get(latestRun, "data"), LAMBDA data :
             Let(OptGet(data, "main"), LAMBDA main :
             Let(At(main, 0), LAMBDA inputItems :
             Let(At(inputItems, 0), LAMBDA firstItem :
               IF /\ Truthy(data) /\ Truthy(main) /\ LengthGt0(main)
                  /\ Truthy(inputItems) /\ LengthGt0(inputItems)
                  /\ Truthy(firstItem) /\ Truthy(Get(firstItem, "json"))
               THEN [ok |-> TRUE,
                     v |-> FieldSources(Get(firstItem, "json"), 7, 6, 5)]
               ELSE [ok |-> TRUE, v |-> <<>>])))))))))

\* the same without the sort: the candidates stay in the order of the pushes
SortByPriorityUnsorted(sources, p) == sources

\* sources.sort((a, b) => b.priority - a.priority): stable, higher first
RECURSIVE SortByPriority(_, _)
SortByPriority(sources, p) ==
  IF p = 0 THEN <<>>
  ELSE SelectSeq(sources, LAMBDA x : x.priority = p) \o SortByPriority(sources, p - 1)

MaxPriority == 10

extractUserInput(node, executionData, runExecutionData) ==
  Let(IncomingSources(executionData), LAMBDA incoming :
  Let(HistorySources(node, runExecutionData), LAMBDA history :
  Let(SortByPriority(incoming.v \o ParameterSources(node) \o history.v, MaxPriority),
      LAMBDA sources :
  Let(SelectSeq(sources, LAMBDA x : TypeofObject(x.value)), LAMBDA objects :
  Let(IF objects = <<>> \/ ~Truthy(Head(objects).value)
      THEN EmptyObj ELSE Head(objects).value, LAMBDA context :
    IF ~incoming.ok \/ ~history.ok THEN Str(<<>>)   \* raised, caught at the end
    ELSE IF sources = <<>> THEN Str(<<>>)
    ELSE Let(Head(sources).value, LAMBDA best :
           IF TypeofObject(best) /\ best.t = "null" THEN Str(<<>>)  \* null.chatInput raises
           ELSE IF TypeofObject(best) /\ Truthy(Get(best, "chatInput"))
           THEN Get(best, "chatInput")
           ELSE resolveExpression(best, context)))))))

OutputFieldNames ==
  <<"text", "content", "output", "completion", "response",
    "answer", "message", "result", "generated_text">>

\* the first name of OutputFieldNames present in outputJson, 0 when none is
FirstOutputField(outputJson) ==
  IF \E i \in DOMAIN OutputFieldNames : Get(outputJson, OutputFieldNames[i]) # Undefined
  THEN CHOOSE i \in DOMAIN OutputFieldNames :
         /\ Get(outputJson, OutputFieldNames[i]) # Undefined
         /\ \A j \in 1..(i - 1) : Get(outputJson, OutputFieldNames[j]) = Undefined
  ELSE 0

\* extractLLMOutput: [ok, llmOutput, usage]; ok = FALSE when the code raises
\* [ok, llmOutput, usage] of a completed extraction
Extracted(llmOutput, usage) == [ok |-> TRUE, llmOutput |-> llmOutput, usage |-> usage]

\* the extraction raised
Raised == [ok |-> FALSE, llmOutput |-> Str(<<>>), usage |-> Null]

extractLLMOutput(outputData) ==
  Let(OptGet(At(outputData, 0), "json"), LAMBDA outputJson :
  Let(IF Truthy(Get(outputJson, "usage")) THEN Get(outputJson, "usage")
      ELSE IF Truthy(Get(outputJson, "tokenUsage")) THEN Get(outputJson, "tokenUsage")
      ELSE Null, LAMBDA usage :
  Let(FirstOutputField(outputJson), LAMBDA i :
  Let(IF i = 0 THEN Undefined ELSE Get(outputJson, OutputFieldNames[i]), LAMBDA field :
  Let(Get(outputJson, "choices"), LAMBDA choices :
  Let(At(choices, 0), LAMBDA choice :
    IF ~(Truthy(outputData) /\ LengthGt0(outputData)) THEN Extracted(Str(<<>>), Null)
    ELSE IF ~Truthy(outputJson) THEN Extracted(Str(<<>>), Null)
    ELSE IF Get(outputJson, "output") # Undefined
    THEN Extracted(Get(outputJson, "output"), usage)
    ELSE IF Truthy(And(Get(outputJson, "result"), OptGet(Get(outputJson, "result"), "output")))
    THEN Extracted(Get(Get(outputJson, "result"), "output"), usage)
    ELSE IF i # 0 /\ field.t = "null"
    THEN Raised   \* null.content raises
    ELSE Let(IF i = 0 THEN Str(<<>>)
             ELSE IF TypeofObject(field) /\ Truthy(Get(field, "content"))
             THEN Get(field, "content")
             ELSE field, LAMBDA found :
           IF ~Truthy(found) /\ Truthy(choices) /\ LengthGt0(choices)
           THEN IF IsNullish(choice)
                THEN Raised
                ELSE IF Truthy(And(Get(choice, "message"),
                                   OptGet(Get(choice, "message"), "content")))
                THEN Extracted(Get(Get(choice, "message"), "content"), usage)
                ELSE IF Truthy(Get(choice, "text"))
                THEN Extracted(Get(choice, "text"), usage)
                ELSE Extracted(found, usage)
           ELSE Extracted(found, usage))))))))

(***************************************************************************)
(* utils/model-detection.js                                                *)
(***************************************************************************)
\* the spelling of the credential-type keys that occur in step descriptors
CredentialKeyChars ==
  [openAiApi    |-> <<"o","p","e","n","A","i","A","p","i">>,
   openaiApi    |-> <<"o","p","e","n","a","i","A","p","i">>,
   anthropicApi |-> <<"a","n","t","h","r","o","p","i","c","A","p","i">>,
   httpBasicAuth |-> <<"h","t","t","p","B","a","s","i","c","A","u","t","h">>]

\* Object.keys(credentials).some(key => key.includes(p))
SomeKeyIncludes(credentials, p) ==
  /\ credentials.t = "object"
  /\ \E k \in DOMAIN credentials.f :
       k \in DOMAIN CredentialKeyChars /\ Includes(CredentialKeyChars[k], p)

\* the vocabulary matched against the declared type
TypeVocabulary ==
  {L_ai, L_openai, L_llm, L_gpt, L_agent, L_chat, L_completion, L_langchain}

\* the vocabulary matched against the declared name
NameVocabulary ==
  {L_ai, L_openai, L_llm, L_gpt, L_agent, L_chat, L_completion}

\* x?.toLowerCase() || '' : ok = FALSE when x has no toLowerCase method
LowerOrEmpty(x) ==
  IF IsNullish(x) THEN [ok |-> TRUE, v |-> <<>>]
  ELSE IF x.t = "string" THEN [ok |-> TRUE, v |-> ToLowerCase(x.s)]
  ELSE [ok |-> FALSE, v |-> <<>>]

\* the model-shaped configuration keys
HasModelKeys(node) ==
  Let(Get(node, "parameters"), LAMBDA parameters :
    /\ Truthy(parameters)
    /\ \/ Truthy(Get(parameters, "model"))
       \/ Truthy(Get(parameters, "prompt"))
       \/ Truthy(Get(parameters, "system"))
       \/ Truthy(Get(parameters, "messages"))
       \/ Truthy(And(Get(parameters, "options"),
                     OptGet(Get(parameters, "options"), "model"))))

\* isAINode: [ok, v]; ok = FALSE when the code raises
isAINode(node) ==
  IF ~Truthy(node) THEN [ok |-> TRUE, v |-> FALSE]
  ELSE Let(LowerOrEmpty(Get(node, "type")), LAMBDA nodeType :
       Let(LowerOrEmpty(Get(node, "name")), LAMBDA nodeName :
         IF ~nodeType.ok \/ ~nodeName.ok THEN [ok |-> FALSE, v |-> FALSE]
         ELSE [ok |-> TRUE,
               v  |-> \/ \E w \in TypeVocabulary : Includes(nodeType.v, w)
                      \/ \E w \in NameVocabulary : Includes(nodeName.v, w)
                      \/ HasModelKeys(node)]))

\* the vendor a model name stands for, Undefined when it names none
VendorOfModel(m, withLlama) ==
  IF Includes(m, L_gpt) \/ StartsWith(m, L_textDash) \/ Includes(m, L_davinci)
  THEN Str(L_openai)
  ELSE IF Includes(m, L_claude) THEN Str(L_anthropic)
  ELSE IF Includes(m, L_gemini) THEN Str(L_google)
  ELSE IF Includes(m, L_mistral) THEN Str(L_mistral)
  ELSE IF withLlama /\ Includes(m, L_llama) THEN Str(L_meta)
  ELSE Undefined

ModelInfo(vendor, model) == [vendor |-> vendor, model |-> model]

\* step 1 and 2 of detectModelInfo: options.model, then the direct model
InfoFromModelName(node) ==
  Let(Get(node, "parameters"), LAMBDA parameters :
  Let(OptGet(OptGet(parameters, "options"), "model"), LAMBDA optModel :
  Let(OptGet(parameters, "model"), LAMBDA dirModel :
  Let(IF Truthy(parameters) /\ Truthy(OptGet(parameters, "options")) /\ Truthy(optModel)
         /\ optModel.t = "string"
      THEN ModelInfo(Or(VendorOfModel(optModel.s, TRUE), Str(L_n8n)), optModel)
      ELSE ModelInfo(Str(L_n8n), Str(L_unknown)), LAMBDA afterOpt :
    IF Truthy(parameters) /\ Truthy(dirModel) /\ afterOpt.model = Str(L_unknown)
       /\ dirModel.t = "string"
    THEN ModelInfo(Or(VendorOfModel(dirModel.s, TRUE), afterOpt.vendor), dirModel)
    ELSE afterOpt))))

\* step 3: the credential types override the vendor
InfoFromCredentials(node, info) ==
  Let(Get(node, "credentials"), LAMBDA credentials :
    IF ~Truthy(credentials) THEN info
    ELSE IF SomeKeyIncludes(credentials, L_openai) THEN ModelInfo(Str(L_openai), info.model)
    ELSE IF SomeKeyIncludes(credentials, L_anthropic) THEN ModelInfo(Str(L_anthropic), info.model)
    ELSE IF SomeKeyIncludes(credentials, L_google) THEN ModelInfo(Str(L_google), info.model)
    ELSE IF SomeKeyIncludes(credentials, L_mistral) THEN ModelInfo(Str(L_mistral), info.model)
    ELSE info)

\* step 4: a declared type that contains "openai"
InfoFromType(node, info) ==
  Let(Get(node, "type"), LAMBDA type :
  Let(Get(node, "parameters"), LAMBDA parameters :
    IF type.t = "string" /\ Includes(type.s, L_openai)
    THEN IF Truthy(parameters) /\ Truthy(Get(parameters, "model"))
         THEN ModelInfo(Str(L_openai), Get(parameters, "model"))
         ELSE ModelInfo(Str(L_openai), Str(L_gpt4))
    ELSE info))

\* step 5: the LangChain agent / llm types default an unknown openai model
InfoFromLangChain(node, info) ==
  IF /\ Get(node, "type") \in {Str(L_langchainAgent), Str(L_langchainLlm)}
     /\ info.vendor = Str(L_openai) /\ info.model = Str(L_unknown)
  THEN ModelInfo(info.vendor, Str(L_gpt4))
  ELSE info

detectModelInfo(node) ==
  IF ~Truthy(node) THEN ModelInfo(Str(L_n8n), Str(L_unknown))
  ELSE InfoFromLangChain(node,
         InfoFromType(node, InfoFromCredentials(node, InfoFromModelName(node))))

\* one tunable: the top-level configuration field wins over options.<field>
ParamValue(parameters, field) ==
  IF Get(parameters, field) # Undefined THEN Get(parameters, field)
  ELSE IF Truthy(Get(parameters, "options"))
  THEN Get(Get(parameters, "options"), field)
  ELSE Undefined

ModelParameterNames ==
  [temperature |-> "temperature", max_tokens |-> "maxTokens", top_p |-> "topP",
   frequency_penalty |-> "frequencyPenalty", presence_penalty |-> "presencePenalty",
   stop |-> "stop"]

extractModelParameters(node) ==
  Let(Or(Get(node, "parameters"), EmptyObj), LAMBDA parameters :
  Let({k \in DOMAIN ModelParameterNames :
         ParamValue(parameters, ModelParameterNames[k]) # Undefined}, LAMBDA present :
    Obj([k \in present |-> ParamValue(parameters, ModelParameterNames[k])])))

(***************************************************************************)
(* The host's inputs: workflow descriptors, run results, errors            *)
(***************************************************************************)
L_42 == <<"4","2">>

L_demo == <<"d","e","m","o">>

L_boom == <<"b","o","o","m">>

\* a workflow descriptor with an id, and one the host has not given an id
WfSaved == Obj([id |-> Str(L_42), name |-> Str(L_demo)])

WfNoId == Obj([name |-> Str(L_demo)])

Workflows == {WfSaved, WfNoId}

\* the error object a failing host call rejects with, and one whose message
\* is empty
HostError == Obj([message |-> Str(L_boom)])

BareError == Obj([message |-> Str(<<>>)])

\* what the host's begin-run promise fulfils with: a run result that carries
\* no error, and one that carries data.resultData.error
RunResultOk == Obj([data |-> Obj([resultData |-> EmptyObj])])

RunResultFailed == Obj([data |-> Obj([resultData |-> Obj([error |-> HostError])])])

RunResults == {RunResultOk, RunResultFailed}

\* error.message || String(error)
ErrorText(error) ==
  IF Truthy(Get(error, "message")) THEN Get(error, "message").s
  ELSE <<"E","r","r","o","r">>

\* the keys of the two maps; Map.get(undefined) / Map.delete(undefined) find
\* nothing, no entry is ever stored under undefined
Keys == {Str(L_42), Str(L_unknown), Undefined}

\* workflow?.id ?? "unknown"
IdOrUnknown(workflow) ==
  IF IsNullish(OptGet(workflow, "id")) THEN Str(L_unknown) ELSE Get(workflow, "id")

(***************************************************************************)
(* State                                                                   *)
(***************************************************************************)
VARIABLES
  variant,                \* which implementation runs: "modular" or "direct"
  apiKey,                 \* LANGWATCH_API_KEY is configured
  now,                    \* Date.now()
  execs,                  \* the executionData objects ever created (the heap)
  workflowExecutions,     \* Map: key -> index into execs, 0 = no entry
  pendingNodeExecutions,  \* Map: key -> queued spans
  runCalls,               \* the calls of the wrapped processRunExecutionData
  stepCalls,              \* the calls of the wrapped runNode
  exports,                \* the sends started by sendWorkflowToLangWatch
  proc,                   \* "running", "flushing" (signal handler awaits), "exited",
                          \* "terminated" (ended by a signal that has no handler)
  unhandled,              \* number of unhandled promise rejections so far
  probe,                  \* a call of one of the exported helpers of helpers.js:
                          \* [fn, args, done, result]
  setup                   \* the installation of the wrappers: the engine module the
                          \* host offers, how far the setup is, the methods of
                          \* WorkflowExecute.prototype that hold a wrapper, the
                          \* errors logged, whether an error left the module, the
                          \* methods the host has called unreplaced

vars == <<variant, apiKey, now, execs, workflowExecutions, pendingNodeExecutions,
          runCalls, stepCalls, exports, proc, unhandled, probe, setup>>

\* the part of the state the trace manager's methods work on
Heap ==
  [execs |-> execs, wfx |-> workflowExecutions, pend |-> pendingNodeExecutions,
   exports |-> exports]

(***************************************************************************)
(* langwatch-client.js / sendToLangWatch: one send                         *)
(***************************************************************************)
\* this.maxRetries = options.maxRetries || 3
maxRetries == 3

\* what one attempt can end with; the direct variant sets no request timeout
Responses(v) ==
  IF v = "modular" THEN {"2xx", "4xx", "5xx", "error", "timeout"}
  ELSE {"2xx", "4xx", "5xx", "error"}

\* does the handler of this response schedule another attempt
Retries(v, response, attempt) ==
  /\ v = "modular"
  /\ response \in {"5xx", "error", "timeout"}
  /\ attempt < maxRetries

\* every response runs two handlers
HandlersRunTwice(response) == 2

\* the same with no handler scheduling the next attempt
HandlersRunNone(response) == 0

\* the handlers that run for one response: after a timeout the handler
\* destroys the request, and the destroyed request emits 'error' (socket hang
\* up), so the 'error' handler runs as well
HandlersRun(response) == IF response = "timeout" THEN 2 ELSE 1

NoAttempts == [a \in 1..maxRetries |-> 0]

\* the same counted from zero: 1 s after the first attempt, 2 s after the second
BackoffDelayFromZero(attempt) == 2 ^ (attempt - 1) * 1000

\* Math.pow(2, attempt) * 1000: the delay, in ms, handed to setTimeout by the
\* handlers of a failed request of the given attempt
BackoffDelay(attempt) == 2 ^ attempt * 1000

\* the attempts one send may make: this.maxRetries in the client, one in
\* sendToLangWatch of the direct variant, which has no retry
MaxAttempts(v) == IF v = "modular" THEN maxRetries ELSE 1

\* a send started by sendWorkflowToLangWatch for executionData object e, the
\* first request in flight.
\*   inflight[a]: requests of attempt a awaiting their response
\*   timers[a]:   backoff timers that will issue attempt a
\*   outcome:     of the promise of sendTrace / sendToLangWatch
\*   sent:        per request issued, the number of spans JSON.stringify wrote
\*   task:        the promise sendWorkflowToLangWatch leaves behind
\*   awaited:     the shutdown handler waits for the task
\*   handed:      the number of spans of the run when it was handed over
\*   forced:      the run was closed by the shutdown handler
\*   faults, timeouts: the responses other than 2xx so far, the timeouts among them
\*   responses:   what the requests issued have ended with, in order
\*   backoff[a]:  the timers of timers[a], in the order they were set: the
\*                delay each was set with and how long it has waited
NewExport(e, nspans, awaited) ==
  [exec |-> e, inflight |-> [NoAttempts EXCEPT ![1] = 1], timers |-> NoAttempts,
   outcome |-> "pending", sent |-> <<nspans>>, task |-> "pending",
   logged |-> FALSE, awaited |-> awaited, handed |-> nspans, forced |-> FALSE,
   faults |-> 0, timeouts |-> 0, responses |-> <<>>,
   backoff |-> [a \in 1..maxRetries |-> <<>>]]

\* the same without the catch: a failed send rejects the task
AfterSendUncaught(v, outcome) ==
  [removes |-> v = "direct" \/ outcome = "resolved",
   logged  |-> FALSE,
   task    |-> IF outcome = "rejected" THEN "rejected" ELSE "fulfilled"]

\* what follows the settling of the send inside sendWorkflowToLangWatch:
\*   modular: await ...; delete(workflow.id)   inside try / catch (log)
\*   direct:  .then(log).catch(log).finally(delete(workflow.id))
AfterSend(v, outcome) ==
  [removes |-> v = "direct" \/ outcome = "resolved",
   logged  |-> outcome = "rejected",
   task    |-> "fulfilled"]

\* the same with the whole buffer cleared instead of the one entry
SendSettledClearsAll(h, t, v, outcome) ==
  Let(AfterSend(v, outcome), LAMBDA after :
    [h EXCEPT !.exports[t].outcome = outcome,
              !.exports[t].task = after.task,
              !.exports[t].logged = after.logged,
              !.wfx = IF after.removes THEN [k \in Keys |-> 0] ELSE @])

\* the send of export t has settled with `outcome`: the continuation runs
SendSettled(h, t, v, outcome) ==
  Let(AfterSend(v, outcome), LAMBDA after :
  Let(Get(h.execs[h.exports[t].exec].workflow, "id"), LAMBDA id :
    [h EXCEPT !.exports[t].outcome = outcome,
              !.exports[t].task = after.task,
              !.exports[t].logged = after.logged,
              !.wfx[id] = IF after.removes THEN 0 ELSE @]))

\* sendWorkflowToLangWatch(executionData) up to its first suspension.  With
\* no API key no request is made: sendTrace returns null (modular), the
\* request constructor rejects the undefined header value (direct); the
\* continuation then runs before any other host event.
sendWorkflowToLangWatch(h, e, v, key, awaited) ==
  Let(Len(h.exports) + 1, LAMBDA t :
  Let([h EXCEPT !.exports = Append(@, NewExport(e, Len(h.execs[e].spans), awaited))],
      LAMBDA h1 :
    IF key THEN h1
    ELSE SendSettled([h1 EXCEPT !.exports[t].inflight = NoAttempts,
                                !.exports[t].sent = <<>>],
                     t, v, IF v = "modular" THEN "resolved" ELSE "rejected")))

(***************************************************************************)
(* trace-manager.js (and the same code inlined in the direct variant)      *)
(***************************************************************************)
TraceId(key, t) == [id |-> key, ts |-> t]

\* createWorkflowExecution that starts the run without the queued records
createWorkflowExecutionEmpty(h, workflow, t) ==
  [h EXCEPT !.execs = Append(@, [workflow |-> workflow,
                                 traceId |-> TraceId(IdOrUnknown(workflow), t),
                                 startedAt |-> t, spans |-> <<>>, isComplete |-> FALSE]),
            !.wfx[IdOrUnknown(workflow)] = Len(h.execs) + 1,
            !.pend[IdOrUnknown(workflow)] = <<>>]

\* the same without the delete: the queued records stay in the queue as well
createWorkflowExecutionKeepsQueue(h, workflow, t) ==
  Let(IdOrUnknown(workflow), LAMBDA workflowId :
  Let([workflow |-> workflow, traceId |-> TraceId(workflowId, t), startedAt |-> t,
       spans |-> h.pend[workflowId], isComplete |-> FALSE], LAMBDA executionData :
    [h EXCEPT !.execs = Append(@, executionData),
              !.wfx[workflowId] = Len(h.execs) + 1]))

createWorkflowExecution(h, workflow, t) ==
  Let(IdOrUnknown(workflow), LAMBDA workflowId :
  Let([workflow |-> workflow, traceId |-> TraceId(workflowId, t), startedAt |-> t,
       spans |-> h.pend[workflowId], isComplete |-> FALSE], LAMBDA executionData :
    [h EXCEPT !.execs = Append(@, executionData),
              !.wfx[workflowId] = Len(h.execs) + 1,
              !.pend[workflowId] = <<>>]))

\* addSpan that puts the span in front of the spans of the run
addSpanFirst(h, workflowId, span) ==
  IF h.wfx[workflowId] # 0
  THEN [h EXCEPT !.execs[h.wfx[workflowId]].spans = <<span>> \o @]
  ELSE [h EXCEPT !.pend[workflowId] = Append(@, span)]

addSpan(h, workflowId, span) ==
  IF h.wfx[workflowId] # 0
  THEN [h EXCEPT !.execs[h.wfx[workflowId]].spans = Append(@, span)]
  ELSE [h EXCEPT !.pend[workflowId] = Append(@, span)]

\* the workflow span; call = 0 marks it as no step's record
WorkflowSpan(executionData, workflowName, value, t) ==
  [call |-> 0, type |-> "workflow",
   span_id |-> [traceId |-> executionData.traceId, suffix |-> "-workflow"],
   input |-> [type |-> "text", value |-> Str(L_workflowPrefix \o workflowName)],
   output |-> [type |-> "json", value |-> value],
   started_at |-> executionData.startedAt, finished_at |-> t]

\* the same with { success: false } when there is no result
SummaryValueNoResultFails(result) ==
  IF Truthy(result) /\ Truthy(Get(result, "error"))
  THEN Obj([error |-> Get(result, "error")])
  ELSE Obj([success |-> Bool(Truthy(result))])

\* result ? (result.error ? { error: result.error } : { success: true })
\*        : { success: true }
SummaryValue(result) ==
  IF Truthy(result) /\ Truthy(Get(result, "error"))
  THEN Obj([error |-> Get(result, "error")])
  ELSE Obj([success |-> Bool(TRUE)])

\* executionData.workflow?.name || 'unknown'
NameOrUnknown(workflow) ==
  IF Truthy(OptGet(workflow, "name")) /\ Get(workflow, "name").t = "string"
  THEN Get(workflow, "name").s ELSE L_unknown

\* the same with the summary put in front of the spans
CloseAndSendFirst(h, e, value, t, v, key) ==
  sendWorkflowToLangWatch(
    [h EXCEPT !.execs[e].spans =
                <<WorkflowSpan(h.execs[e], NameOrUnknown(h.execs[e].workflow),
                               value, t)>> \o @,
              !.execs[e].isComplete = TRUE],
    e, v, key, FALSE)

\* close executionData object e with the given summary value and send it
CloseAndSend(h, e, value, t, v, key) ==
  sendWorkflowToLangWatch(
    [h EXCEPT !.execs[e].spans =
                Append(@, WorkflowSpan(h.execs[e], NameOrUnknown(h.execs[e].workflow),
                                       value, t)),
              !.execs[e].isComplete = TRUE],
    e, v, key, FALSE)

\* the same made idempotent: a run already complete is left alone
completeWorkflowExecutionOnce(h, workflowId, result, t, key) ==
  IF h.wfx[workflowId] = 0 \/ h.execs[h.wfx[workflowId]].isComplete THEN h
  ELSE CloseAndSend(h, h.wfx[workflowId], SummaryValue(result), t, "modular", key)

completeWorkflowExecution(h, workflowId, result, t, key) ==
  IF h.wfx[workflowId] = 0 THEN h
  ELSE CloseAndSend(h, h.wfx[workflowId], SummaryValue(result), t, "modular", key)

(***************************************************************************)
(* The wrapper of processRunExecutionData                                  *)
(***************************************************************************)
\* executionResult?.data?.resultData?.error
ResultError(executionResult) ==
  OptGet(OptGet(OptGet(executionResult, "data"), "resultData"), "error")

\* the continuation the modular wrapper attaches to the host's promise
ModularRunContinuation(h, workflow, settled, value, t, key) ==
  completeWorkflowExecution(h, Get(workflow, "id"),
    IF settled = "fulfilled"
    THEN Obj([success |-> Bool(~Truthy(ResultError(value)))])
    ELSE Obj([error |-> Str(ErrorText(value))]),
    t, key)

\* the continuation the direct wrapper attaches to the host's promise
DirectRunContinuation(h, workflow, settled, value, t, key) ==
  Let(IdOrUnknown(workflow), LAMBDA workflowId :
    IF h.wfx[workflowId] = 0 THEN h
    ELSE CloseAndSend(h, h.wfx[workflowId],
           IF settled = "fulfilled"
           THEN Obj([success |-> Bool(~Truthy(ResultError(value)))])
           ELSE Obj([error |-> Str(ErrorText(value))]),
           t, "direct", key))

\* the arguments the wrapper hands to the original method: apply(this, arguments)
HostArguments(workflow) == workflow

\* a wrapper that returns the promise of result.then(...)
WrapperReturnsDerived == "derived"

\* a wrapper that returns a promise that waits for the send as well
WrapperReturnsChained == "chained"

\* which promise the wrapper returns: "host" is the original method's own
\* promise (return result); "derived" would be the promise of result.then(...),
\* "chained" one that also waits for the send
WrapperReturns == "host"

(***************************************************************************)
(* The steps the host executes                                             *)
(***************************************************************************)
\* the TypeError the engine raises for a property read of null / undefined
\* or a call of something that is no function
TypeError == Obj([message |-> Str(<<"T","y","p","e","E","r","r","o","r">>)])

NodeSet ==
  Obj([type |-> Str(<<"s","e","t">>), name |-> Str(<<"S","e","t">>), parameters |-> Obj([x |-> Num(1)])])

NodeChat ==
  Obj([type |-> Str(<<"o","p","e","n","a","i","-","c","h","a","t">>), name |-> Str(<<"C","h","a","t">>),
       parameters |-> Obj([prompt |-> Str(<<"h","i">>)])])

NodeAsk ==
  Obj([type |-> Str(<<"o","p","e","n","a","i","-","c","h","a","t">>), name |-> Str(<<"A","s","k">>),
       parameters |-> Obj([prompt |-> Str(<<"h","i">>)])])

NodeBadType == Obj([type |-> Num(5), name |-> Str(<<"S","e","t">>)])

\* result.data[runIndex] = rows
StepResult(rows) == Obj([data |-> Arr(<<Arr(rows)>>)])

Row(json) == Obj([json |-> json])

\* the step executions the host makes: the step's execution context and what
\* the original runNode fulfils with when it fulfils
StepSamples ==
  [set     |-> [executionData |-> Obj([node |-> NodeSet]),
                result |-> StepResult(<<Row(Obj([x |-> Num(1)]))>>)],
   chat    |-> [executionData |-> Obj([node |-> NodeChat]),
                result |-> StepResult(<<Row(Obj([output |-> Str(<<"h","e","l","l","o">>)]))>>)],
   ask     |-> [executionData |-> Obj([node |-> NodeAsk]),
                result |-> StepResult(<<Row(Obj([content |-> Null]))>>)],
   nonode  |-> [executionData |-> EmptyObj,
                result |-> StepResult(<<Row(Obj([x |-> Num(1)]))>>)],
   badtype |-> [executionData |-> Obj([node |-> NodeBadType]),
                result |-> StepResult(<<Row(Obj([x |-> Num(1)]))>>)]]

\* the run history handed to runNode
RunExecutionData == Obj([resultData |-> Obj([runData |-> EmptyObj])])

runIndex == 0

(***************************************************************************)
(* The wrapper of runNode                                                  *)
(***************************************************************************)
SpanId(traceId, name) == [traceId |-> traceId, suffix |-> name]

\* outputData ? outputData.map(item => item.json) : []   ok = FALSE: raises
ComponentOutput(outputData) ==
  IF ~Truthy(outputData) THEN [ok |-> TRUE, v |-> Arr(<<>>)]
  ELSE IF outputData.t # "array" THEN [ok |-> FALSE, v |-> Undefined]
  ELSE IF \E i \in DOMAIN outputData.a : IsNullish(outputData.a[i])
  THEN [ok |-> FALSE, v |-> Undefined]
  ELSE [ok |-> TRUE,
        v |-> Arr([i \in DOMAIN outputData.a |-> Get(outputData.a[i], "json")])]

componentSpan(call, node, outputData, spanId, startedAt, finishedAt) ==
  Let(ComponentOutput(outputData), LAMBDA out :
    [ok |-> out.ok,
     span |-> [call |-> call, type |-> "component", span_id |-> spanId,
               input |-> [type |-> "json", value |-> Or(Get(node, "parameters"), EmptyObj)],
               output |-> [type |-> "json", value |-> out.v],
               started_at |-> startedAt, finished_at |-> finishedAt]])

\* chat messages when there is a system or a user message, text otherwise
InputValue(systemMessage, userInput) ==
  Let((IF Truthy(systemMessage)
       THEN <<Obj([role |-> "system", content |-> systemMessage])>> ELSE <<>>)
      \o (IF Truthy(userInput)
          THEN <<Obj([role |-> "user", content |-> userInput])>> ELSE <<>>),
      LAMBDA chatMessages :
    IF chatMessages # <<>>
    THEN [type |-> "chat_messages", value |-> Arr(chatMessages)]
    ELSE [type |-> "text", value |-> userInput])

\* usage.prompt_tokens || 0, ...
Metrics(usage) ==
  IF ~Truthy(usage) THEN Undefined
  ELSE Obj([prompt_tokens     |-> Or(Get(usage, "prompt_tokens"), Num(0)),
            completion_tokens |-> Or(Get(usage, "completion_tokens"), Num(0)),
            total_tokens      |-> Or(Get(usage, "total_tokens"), Num(0))])

\* the estimate the direct variant substitutes for a missing usage
EstimatedUsage(systemMessage, userInput, llmOutput) ==
  Obj([prompt_tokens |->
         Num(estimateTokenCount(systemMessage) + estimateTokenCount(userInput)),
       completion_tokens |-> Num(estimateTokenCount(llmOutput)),
       total_tokens |->
         Num(estimateTokenCount(systemMessage) + estimateTokenCount(userInput)
             + estimateTokenCount(llmOutput))])

llmSpan(call, modelInfo, inputValue, llmOutput, usage, modelParams, spanId, startedAt, finishedAt) ==
  [call |-> call, type |-> "llm", span_id |-> spanId,
   vendor |-> modelInfo.vendor, model |-> modelInfo.model,
   input |-> inputValue,
   output |-> [type |-> "text", value |-> Or(llmOutput, Str(L_noOutput))],
   started_at |-> startedAt, finished_at |-> finishedAt,
   params |-> modelParams, metrics |-> Metrics(usage)]

\* the span the modular wrapper builds once the host call has fulfilled
ModularSpan(call, node, executionData, result, aiNode, spanId, startedAt, finishedAt) ==
  Let(At(OptGet(result, "data"), runIndex), LAMBDA outputData :
    IF ~aiNode
    THEN componentSpan(call, node, outputData, spanId, startedAt, finishedAt)
    ELSE Let(extractLLMOutput(outputData), LAMBDA out :
           [ok |-> out.ok,
            span |-> llmSpan(call, detectModelInfo(node),
                             InputValue(extractSystemMessage(Get(node, "parameters")),
                                        extractUserInput(node, executionData,
                                                         RunExecutionData)),
                             out.llmOutput, out.usage, extractModelParameters(node),
                             spanId, startedAt, finishedAt)]))

\* the span of the catch branch without the "Error: " prefix
ErrorSpanBare(call, node, aiNode, error, spanId, startedAt, finishedAt) ==
  [call |-> call, type |-> IF aiNode THEN "llm" ELSE "component", span_id |-> spanId,
   input |-> [type |-> "json", value |-> Or(Get(node, "parameters"), EmptyObj)],
   output |-> [type |-> "text", value |-> Str(ErrorText(error))],
   started_at |-> startedAt, finished_at |-> finishedAt]

\* the span of the catch branch
ErrorSpan(call, node, aiNode, error, spanId, startedAt, finishedAt) ==
  [call |-> call, type |-> IF aiNode THEN "llm" ELSE "component", span_id |-> spanId,
   input |-> [type |-> "json", value |-> Or(Get(node, "parameters"), EmptyObj)],
   output |-> [type |-> "text", value |-> Str(L_errorPrefix \o ErrorText(error))],
   started_at |-> startedAt, finished_at |-> finishedAt]

\* the model detection the direct variant performs inline
directModelInfo(node) ==
  Let(Get(node, "parameters"), LAMBDA parameters :
  Let(OptGet(OptGet(parameters, "options"), "model"), LAMBDA optModel :
  Let(IF Truthy(parameters) /\ Truthy(OptGet(parameters, "options")) /\ Truthy(optModel)
         /\ optModel.t = "string"
      THEN ModelInfo(Or(VendorOfModel(optModel.s, FALSE), Str(L_n8n)), optModel)
      ELSE ModelInfo(Str(L_n8n), Str(L_unknown)), LAMBDA byName :
  Let(Get(node, "credentials"), LAMBDA credentials :
  Let(IF ~Truthy(credentials) THEN byName
      ELSE IF SomeKeyIncludes(credentials, L_openai)
      THEN ModelInfo(Str(L_openai), byName.model)
      ELSE IF SomeKeyIncludes(credentials, L_anthropic)
      THEN ModelInfo(Str(L_anthropic), byName.model)
      ELSE byName, LAMBDA byCredentials :
    InfoFromType(node, InfoFromLangChain(node, byCredentials)))))))

\* the two tunables the direct variant extracts
directModelParameters(node) ==
  Let(Or(Get(node, "parameters"), EmptyObj), LAMBDA parameters :
  Let([temperature |-> "temperature", max_tokens |-> "maxTokens"], LAMBDA names :
  Let({k \in DOMAIN names : ParamValue(parameters, names[k]) # Undefined}, LAMBDA present :
    Obj([k \in present |-> ParamValue(parameters, names[k])]))))

\* the span the direct wrapper builds once the host call has fulfilled
DirectSpan(call, node, executionData, result, aiNode, spanId, startedAt, finishedAt) ==
  Let(At(OptGet(result, "data"), runIndex), LAMBDA outputData :
    IF ~aiNode
    THEN componentSpan(call, node, outputData, spanId, startedAt, finishedAt)
    ELSE Let(extractLLMOutput(outputData), LAMBDA out :
         Let(extractUserInput(node, executionData, RunExecutionData), LAMBDA userInput :
         Let(extractSystemMessage(Get(node, "parameters")), LAMBDA systemMessage :
         Let(IF ~Truthy(out.usage)
                /\ (Truthy(out.llmOutput) \/ Truthy(userInput) \/ Truthy(systemMessage))
             THEN EstimatedUsage(systemMessage, userInput, out.llmOutput)
             ELSE out.usage, LAMBDA usage :
           [ok |-> out.ok,
            span |-> llmSpan(call, directModelInfo(node),
                             InputValue(systemMessage, userInput),
                             out.llmOutput, usage, directModelParameters(node),
                             spanId, startedAt, finishedAt)])))))

\* where a finished span goes.  modular: traceManager.addSpan, which looks the
\* run up when the span is added; direct: the executionData object the
\* wrapper found when the step started, else the pending queue
RouteSpan(h, v, call, span) ==
  IF v = "modular" THEN addSpan(h, call.workflowId, span)
  ELSE IF call.execution # 0
  THEN [h EXCEPT !.execs[call.execution].spans = Append(@, span)]
  ELSE [h EXCEPT !.pend[call.workflowId] = Append(@, span)]

\* the synchronous prefix of the wrapper, up to the call of the original
\* runNode: the record of the call
StepCall(v, h, workflow, sm, t) ==
  Let(OptGet(StepSamples[sm].executionData, "node"), LAMBDA node :
  Let(IdOrUnknown(workflow), LAMBDA workflowId :
  Let(h.wfx[workflowId], LAMBDA execution :
  Let(IF execution # 0 THEN h.execs[execution].traceId ELSE TraceId(workflowId, t),
      LAMBDA traceId :
  Let(isAINode(node), LAMBDA ai :
  Let([workflow |-> workflow, sample |-> sm, workflowId |-> workflowId,
       execution |-> execution, startedAt |-> t,
       spanId |-> SpanId(traceId, OptGet(node, "name")),
       aiNode |-> ai.ok /\ ai.v, passthrough |-> FALSE,
       host |-> "pending", hostValue |-> Undefined,
       wrapper |-> "pending", wrapperValue |-> Undefined], LAMBDA base :
    IF ~Truthy(node) THEN [base EXCEPT !.passthrough = TRUE]
    ELSE IF ~ai.ok
    THEN [base EXCEPT !.host = "notcalled", !.wrapper = "rejected",
                      !.wrapperValue = TypeError]
    ELSE base))))))

\* the wrapper's continuation once the original runNode has settled:
\* [h: the heap after it, wrapper, wrapperValue: how the wrapper settles]
StepContinuation(v, h, c, call, settled, value, t) ==
  Let(Get(StepSamples[call.sample].executionData, "node"), LAMBDA node :
  Let(IF settled = "rejected" THEN [ok |-> FALSE]
      ELSE IF v = "modular"
      THEN ModularSpan(c, node, StepSamples[call.sample].executionData, value,
                       call.aiNode, call.spanId, call.startedAt, t)
      ELSE DirectSpan(c, node, StepSamples[call.sample].executionData, value,
                      call.aiNode, call.spanId, call.startedAt, t), LAMBDA built :
  Let(IF settled = "rejected" THEN value ELSE TypeError, LAMBDA error :
    IF call.passthrough
    THEN [h |-> h, wrapper |-> settled, wrapperValue |-> value]
    ELSE IF built.ok
    THEN [h |-> RouteSpan(h, v, call, built.span),
          wrapper |-> "fulfilled", wrapperValue |-> value]
    ELSE [h |-> RouteSpan(h, v, call,
                  ErrorSpan(c, node, call.aiNode, error, call.spanId, call.startedAt, t)),
          wrapper |-> "rejected", wrapperValue |-> error])))

(***************************************************************************)
(* index.js: the signal handlers, flushPendingTraces                       *)
(***************************************************************************)
\* the sends started after the first n are those of runs the handler closed
ForceClosed(n, h) ==
  [h EXCEPT !.exports = [t \in DOMAIN h.exports |->
                           IF t > n THEN [h.exports[t] EXCEPT !.forced = TRUE]
                           ELSE h.exports[t]]]

\* one iteration of the loop of flushPendingTraces
FlushEntry(h, workflowId, t, key) ==
  IF h.wfx[workflowId] = 0 THEN h
  ELSE IF ~h.execs[h.wfx[workflowId]].isComplete
  THEN ForceClosed(Len(h.exports), completeWorkflowExecution(h, workflowId, Null, t, key))
  ELSE sendWorkflowToLangWatch(h, h.wfx[workflowId], "modular", key, TRUE)

\* the loop over the entries of workflowExecutions
flushPendingTraces(h, t, key) ==
  FlushEntry(FlushEntry(h, Str(L_42), t, key), Str(L_unknown), t, key)

(***************************************************************************)
(* The state machine                                                       *)
(***************************************************************************)
\* require('n8n-core') as the host offers it: the module loads or require
\* raises, it exports the class WorkflowExecute or not, and an assignment to
\* either method of the prototype takes effect or raises
Engines ==
  {e \in [loads : BOOLEAN, exportsClass : BOOLEAN,
          processRunExecutionData : {"assignable", "raises"},
          runNode : {"assignable", "raises"}] :
     /\ ~e.loads => ~e.exportsClass
     /\ ~e.exportsClass =>
          (e.processRunExecutionData = "assignable" /\ e.runNode = "assignable")}

EngineFine ==
  [loads |-> TRUE, exportsClass |-> TRUE,
   processRunExecutionData |-> "assignable", runNode |-> "assignable"]

\* before the setup has run on engine e
NotSetUp(e) ==
  [engine |-> e, pc |-> "start", installed |-> {}, errors |-> 0, raised |-> FALSE,
   originals |-> {}]

\* both wrappers are installed and the host is running
Installed ==
  [engine |-> EngineFine, pc |-> "running",
   installed |-> {"processRunExecutionData", "runNode"}, errors |-> 0, raised |-> FALSE,
   originals |-> {}]

\* const { WorkflowExecute } = require('n8n-core');
\* WorkflowExecute.prototype[method] = function ...   completes without raising
Patches(e, method) == e.loads /\ e.exportsClass /\ e[method] = "assignable"

\* try { require; save the original; replace it } catch { logger.error }
setupWorkflowInstrumentation(s) ==
  IF Patches(s.engine, "processRunExecutionData")
  THEN [s EXCEPT !.installed = @ \cup {"processRunExecutionData"}]
  ELSE [s EXCEPT !.errors = @ + 1]

setupNodeInstrumentation(s) ==
  IF Patches(s.engine, "runNode")
  THEN [s EXCEPT !.installed = @ \cup {"runNode"}]
  ELSE [s EXCEPT !.errors = @ + 1]

\* index.js: setupN8nInstrumentation(traceManager) calls the two in turn and
\* returns true; the signal handlers are registered and the host starts
setupN8nInstrumentation(s) ==
  [setupNodeInstrumentation(setupWorkflowInstrumentation(s)) EXCEPT !.pc = "running"]

\* n8n-langwatch-direct.js, preloaded with node --require: require('n8n-core')
\* at the top of the module, outside any try; then the setup function, one
\* try around both replacements
setupN8nLangWatchInstrumentation(s) ==
  IF ~s.engine.loads THEN [s EXCEPT !.raised = TRUE, !.pc = "crashed"]
  ELSE IF ~Patches(s.engine, "processRunExecutionData")
  THEN [s EXCEPT !.errors = @ + 1, !.pc = "running"]
  ELSE IF ~Patches(s.engine, "runNode")
  THEN [s EXCEPT !.installed = {"processRunExecutionData"}, !.errors = @ + 1,
                 !.pc = "running"]
  ELSE [s EXCEPT !.installed = {"processRunExecutionData", "runNode"}, !.pc = "running"]

\* no helper is being called on its own
NoCall == [fn |-> "none", args |-> <<>>, done |-> FALSE, result |-> Undefined]

Init ==
  /\ variant \in {"modular", "direct"}
  /\ apiKey \in BOOLEAN
  /\ now = 0
  /\ execs = <<>>
  /\ workflowExecutions = [k \in Keys |-> 0]
  /\ pendingNodeExecutions = [k \in Keys |-> <<>>]
  /\ runCalls = <<>>
  /\ stepCalls = <<>>
  /\ exports = <<>>
  /\ proc = "running"
  /\ unhandled = 0
  /\ probe = NoCall
  /\ setup = Installed

Install(h) ==
  /\ execs' = h.execs
  /\ workflowExecutions' = h.wfx
  /\ pendingNodeExecutions' = h.pend
  /\ exports' = h.exports

\* the promises whose rejection nobody handles, among the tasks of h
Rejected(h) == Cardinality({t \in DOMAIN h.exports : h.exports[t].task = "rejected"})

\* the clock advances
Tick ==
  /\ proc \notin {"exited", "terminated"}
  /\ now < MaxClock
  /\ now' = now + 1
  /\ UNCHANGED <<setup, probe, variant, apiKey, execs, workflowExecutions, pendingNodeExecutions,
                 runCalls, stepCalls, exports, proc, unhandled>>

\* what the caller of the wrapped processRunExecutionData sees of the promise
\* call c returned
CallerView(c) ==
  CASE runCalls[c].returns = "host" ->
         [state |-> runCalls[c].host, value |-> runCalls[c].value]
    [] runCalls[c].returns = "derived" ->
         [state |-> IF runCalls[c].host = "pending" THEN "pending" ELSE "fulfilled",
          value |-> Undefined]
    [] OTHER ->
         IF \/ runCalls[c].host = "pending"
            \/ /\ runCalls[c].export # 0
               /\ exports[runCalls[c].export].task = "pending"
         THEN [state |-> "pending", value |-> Undefined]
         ELSE [state |-> runCalls[c].host, value |-> runCalls[c].value]

\* the host calls the wrapped processRunExecutionData(workflow)
BeginRun(workflow, maxRuns) ==
  /\ proc \notin {"exited", "terminated"}
  /\ setup.pc = "running" /\ "processRunExecutionData" \in setup.installed
  /\ Len(runCalls) < maxRuns
  /\ Install(createWorkflowExecution(Heap, workflow, now))
  /\ runCalls' = Append(runCalls,
       [workflow |-> workflow, hostArgs |-> HostArguments(workflow),
        exec |-> Len(execs) + 1, returns |-> WrapperReturns,
        host |-> "pending", value |-> Undefined, export |-> 0])
  /\ UNCHANGED <<setup, probe, variant, apiKey, now, stepCalls, proc, unhandled>>

\* the host's promise of run call c settles and the wrapper's continuation runs
RunSettles(c, settled, value) ==
  /\ proc \notin {"exited", "terminated"}
  /\ runCalls[c].host = "pending"
  /\ \E h \in {IF variant = "modular"
               THEN ModularRunContinuation(Heap, runCalls[c].workflow, settled, value,
                                           now, apiKey)
               ELSE DirectRunContinuation(Heap, runCalls[c].workflow, settled, value,
                                          now, apiKey)} :
        /\ Install(h)
        /\ unhandled' = unhandled + (Rejected(h) - Rejected(Heap))
        /\ runCalls' = [runCalls EXCEPT
             ![c].host = settled, ![c].value = value,
             ![c].export = IF Len(h.exports) > Len(exports) THEN Len(h.exports) ELSE 0]
  /\ UNCHANGED <<setup, probe, variant, apiKey, now, stepCalls, proc>>

\* the host calls the wrapped runNode
StepStart(workflow, sm, maxSteps) ==
  /\ proc \notin {"exited", "terminated"}
  /\ setup.pc = "running" /\ "runNode" \in setup.installed
  /\ Len(stepCalls) < maxSteps
  /\ stepCalls' = Append(stepCalls, StepCall(variant, Heap, workflow, sm, now))
  /\ UNCHANGED <<setup, probe, variant, apiKey, now, execs, workflowExecutions, pendingNodeExecutions,
                 runCalls, exports, proc, unhandled>>

\* the original runNode of step call c settles and the wrapper resumes
StepSettles(c, settled, value) ==
  /\ proc \notin {"exited", "terminated"}
  /\ stepCalls[c].host = "pending"
  /\ \E r \in {StepContinuation(variant, Heap, c, stepCalls[c], settled, value, now)} :
        /\ Install(r.h)
        /\ stepCalls' = [stepCalls EXCEPT
             ![c].host = settled, ![c].hostValue = value,
             ![c].wrapper = r.wrapper, ![c].wrapperValue = r.wrapperValue]
  /\ UNCHANGED <<setup, probe, variant, apiKey, now, runCalls, proc, unhandled>>

\* the responses other than 2xx, and the timeouts, the network has given
RECURSIVE FaultsOf(_)
FaultsOf(es) == IF es = <<>> THEN 0 ELSE Head(es).faults + FaultsOf(Tail(es))

RECURSIVE TimeoutsOf(_)
TimeoutsOf(es) == IF es = <<>> THEN 0 ELSE Head(es).timeouts + TimeoutsOf(Tail(es))

\* the handlers of the response to a request of attempt a of export t: a
\* retry starts its backoff timer, anything else settles the send once
Responded(h, t, a, v, response, retry) ==
  Let([h EXCEPT
         !.exports[t].inflight[a] = @ - 1,
         !.exports[t].faults = @ + (IF response # "2xx" THEN 1 ELSE 0),
         !.exports[t].timeouts = @ + (IF response = "timeout" THEN 1 ELSE 0),
         !.exports[t].responses = Append(@, response),
         !.exports[t].timers =
            IF retry THEN [@ EXCEPT ![a + 1] = @ + HandlersRun(response)] ELSE @,
         !.exports[t].backoff =
            IF retry
            THEN [@ EXCEPT ![a + 1] = @ \o [i \in 1..HandlersRun(response) |->
                                              [delay |-> BackoffDelay(a), waited |-> 0]]]
            ELSE @],
      LAMBDA h1 :
    IF ~retry /\ h.exports[t].outcome = "pending"
    THEN SendSettled(h1, t, v, IF response = "2xx" THEN "resolved" ELSE "rejected")
    ELSE h1)

\* a request of attempt a of export t gets its response
ExportResponse(t, a, response, maxFaults) ==
  /\ proc \notin {"exited", "terminated"}
  /\ exports[t].inflight[a] > 0
  /\ response \in Responses(variant)
  /\ response # "2xx" => FaultsOf(exports) < maxFaults
  /\ response = "timeout" => TimeoutsOf(exports) < MaxTimeouts
  /\ \E h \in {Responded(Heap, t, a, variant, response, Retries(variant, response, a))} :
        /\ Install(h)
        /\ unhandled' = unhandled + (Rejected(h) - Rejected(Heap))
  /\ UNCHANGED <<setup, probe, variant, apiKey, now, runCalls, stepCalls, proc>>

\* the delay of the oldest backoff timer of export t for attempt a runs out
\* and the timer fires: attempt a is issued
TimerFires(t, a) ==
  /\ proc \notin {"exited", "terminated"}
  /\ exports[t].timers[a] > 0
  /\ exports' = [exports EXCEPT
       ![t].timers[a] = @ - 1, ![t].inflight[a] = @ + 1,
       ![t].backoff[a] = Tail(@),
       ![t].sent = Append(@, Len(execs[exports[t].exec].spans))]
  /\ UNCHANGED <<setup, probe, variant, apiKey, now, execs, workflowExecutions, pendingNodeExecutions,
                 runCalls, stepCalls, proc, unhandled>>

\* the same when the passing of time is followed: the timer fires only once
\* it has waited for the delay it was set with
TimerDue(t, a) ==
  /\ exports[t].timers[a] > 0
  /\ Head(exports[t].backoff[a]).waited >= Head(exports[t].backoff[a]).delay
  /\ TimerFires(t, a)

\* a second passes while a backoff timer has still to wait
Elapse ==
  /\ proc \notin {"exited", "terminated"}
  /\ \E t \in DOMAIN exports, a \in 1..maxRetries : \E i \in DOMAIN exports[t].backoff[a] :
       exports[t].backoff[a][i].waited < exports[t].backoff[a][i].delay
  /\ now' = now + 1000
  /\ exports' = [t \in DOMAIN exports |->
       [exports[t] EXCEPT !.backoff = [a \in 1..maxRetries |->
          [i \in DOMAIN exports[t].backoff[a] |->
             [exports[t].backoff[a][i] EXCEPT !.waited =
                IF @ < exports[t].backoff[a][i].delay THEN @ + 1000 ELSE @]]]]]
  /\ UNCHANGED <<setup, probe, variant, apiKey, execs, workflowExecutions, pendingNodeExecutions,
                 runCalls, stepCalls, proc, unhandled>>

\* SIGINT or an uncaught exception: the handler runs flushPendingTraces up to
\* its await
Signal ==
  /\ variant = "modular"
  /\ proc = "running"
  /\ \E h \in {flushPendingTraces(Heap, now, apiKey)} :
        /\ Install(h)
        /\ unhandled' = unhandled + (Rejected(h) - Rejected(Heap))
  /\ proc' = "flushing"
  /\ UNCHANGED <<setup, probe, variant, apiKey, now, runCalls, stepCalls>>

\* Promise.all(promises) has settled: the handler calls process.exit
Exit ==
  /\ proc = "flushing"
  /\ \A t \in DOMAIN exports : exports[t].awaited => exports[t].task # "pending"
  /\ proc' = "exited"
  /\ UNCHANGED <<setup, probe, variant, apiKey, now, execs, workflowExecutions, pendingNodeExecutions,
                 runCalls, stepCalls, exports, unhandled>>

\* SIGTERM: no handler is registered for it, the process ends at once
Terminate ==
  /\ proc \in {"running", "flushing"}
  /\ proc' = "terminated"
  /\ UNCHANGED <<setup, probe, variant, apiKey, now, execs, workflowExecutions, pendingNodeExecutions,
                 runCalls, stepCalls, exports, unhandled>>

\* the samples of the steps of a run whose lifecycle is followed
LifecycleSamples == {"set", "chat"}

\* the host runs workflows and their steps while the network answers
Next ==
  \/ \E w \in Workflows : BeginRun(w, MaxRuns)
  \/ \E c \in DOMAIN runCalls, r \in RunResults : RunSettles(c, "fulfilled", r)
  \/ \E c \in DOMAIN runCalls : RunSettles(c, "rejected", HostError)
  \/ \E w \in Workflows, sm \in LifecycleSamples : StepStart(w, sm, MaxSteps)
  \/ \E c \in DOMAIN stepCalls :
       StepSettles(c, "fulfilled", StepSamples[stepCalls[c].sample].result)
  \/ \E c \in DOMAIN stepCalls : StepSettles(c, "rejected", HostError)
  \/ \E t \in DOMAIN exports, a \in 1..maxRetries, r \in Responses(variant) :
       ExportResponse(t, a, r, MaxFaults)
  \/ \E t \in DOMAIN exports, a \in 1..maxRetries : TimerFires(t, a)

Spec == Init /\ [][Next]_vars

\* the process is told to stop while runs are open or their sends in flight
NextShutdown ==
  \/ \E w \in Workflows : BeginRun(w, MaxRuns)
  \/ \E c \in DOMAIN runCalls, r \in RunResults : RunSettles(c, "fulfilled", r)
  \/ \E c \in DOMAIN runCalls : RunSettles(c, "rejected", HostError)
  \/ \E t \in DOMAIN exports, a \in 1..maxRetries, r \in Responses(variant) :
       ExportResponse(t, a, r, MaxFaults)
  \/ \E t \in DOMAIN exports, a \in 1..maxRetries : TimerFires(t, a)
  \/ Signal
  \/ Exit
  \/ Terminate

SpecShutdown == Init /\ [][NextShutdown]_vars

\* the steps of one run, over every sample of a step
NextStep ==
  \/ \E w \in Workflows : BeginRun(w, SingleRun)
  \/ \E c \in DOMAIN runCalls : RunSettles(c, "fulfilled", RunResultOk)
  \/ \E w \in Workflows, sm \in DOMAIN StepSamples : StepStart(w, sm, MaxRunSteps)
  \/ \E c \in DOMAIN stepCalls :
       StepSettles(c, "fulfilled", StepSamples[stepCalls[c].sample].result)
  \/ \E c \in DOMAIN stepCalls, e \in {HostError, BareError} :
       StepSettles(c, "rejected", e)

SpecStep == Init /\ [][NextStep]_vars

\* one send followed through every response the network can give
NextSend ==
  \/ Tick
  \/ BeginRun(WfSaved, SingleRun)
  \/ \E c \in DOMAIN runCalls, r \in RunResults : RunSettles(c, "fulfilled", r)
  \/ \E t \in DOMAIN exports, a \in 1..maxRetries, r \in Responses(variant) :
       ExportResponse(t, a, r, MaxSendFaults)
  \/ \E t \in DOMAIN exports, a \in 1..maxRetries : TimerFires(t, a)

SpecSend == Init /\ [][NextSend]_vars

\* one send followed while the seconds of its backoff pass
NextBackoff ==
  \/ Elapse
  \/ BeginRun(WfSaved, SingleRun)
  \/ \E c \in DOMAIN runCalls : RunSettles(c, "fulfilled", RunResultOk)
  \/ \E t \in DOMAIN exports, a \in 1..maxRetries, r \in Responses(variant) :
       ExportResponse(t, a, r, MaxSendFaults)
  \/ \E t \in DOMAIN exports, a \in 1..maxRetries : TimerDue(t, a)

SpecBackoff == Init /\ [][NextBackoff]_vars

\* the same where every request issued gets its response, connection error
\* or timeout, and every backoff timer set fires
SpecSendLive ==
  /\ Init
  /\ [][NextSend]_vars
  /\ WF_vars(\E t \in DOMAIN exports, a \in 1..maxRetries, r \in Responses(variant) :
               ExportResponse(t, a, r, MaxSendFaults))
  /\ WF_vars(\E t \in DOMAIN exports, a \in 1..maxRetries : TimerFires(t, a))

\* runs are registered one after another, at the same or at a later reading
\* of the clock, while steps end; the shutdown handler drains the buffer
NextBuffer ==
  \/ Tick
  \/ \E w \in Workflows : BeginRun(w, MaxRuns)
  \/ \E w \in Workflows, sm \in LifecycleSamples : StepStart(w, sm, MaxSteps)
  \/ \E c \in DOMAIN stepCalls :
       StepSettles(c, "fulfilled", StepSamples[stepCalls[c].sample].result)
  \/ Signal

SpecBuffer == Init /\ [][NextBuffer]_vars

(***************************************************************************)
(* Installing the wrappers                                                 *)
(***************************************************************************)
InitSetup ==
  /\ variant \in {"modular", "direct"}
  /\ apiKey \in BOOLEAN
  /\ now = 0
  /\ execs = <<>>
  /\ workflowExecutions = [k \in Keys |-> 0]
  /\ pendingNodeExecutions = [k \in Keys |-> <<>>]
  /\ runCalls = <<>>
  /\ stepCalls = <<>>
  /\ exports = <<>>
  /\ proc = "running"
  /\ unhandled = 0
  /\ probe = NoCall
  /\ setup \in {NotSetUp(e) : e \in Engines}

\* the instrumentation module is loaded into the host process and sets up
Setup ==
  /\ setup.pc = "start"
  /\ setup' = IF variant = "modular" THEN setupN8nInstrumentation(setup)
              ELSE setupN8nLangWatchInstrumentation(setup)
  /\ UNCHANGED <<variant, apiKey, now, execs, workflowExecutions, pendingNodeExecutions,
                 runCalls, stepCalls, exports, proc, unhandled, probe>>

\* the host calls a method of WorkflowExecute.prototype that holds no wrapper
OriginalCall(method) ==
  /\ setup.pc = "running"
  /\ setup.engine.loads /\ setup.engine.exportsClass
  /\ method \notin setup.installed
  /\ method \notin setup.originals
  /\ setup' = [setup EXCEPT !.originals = @ \cup {method}]
  /\ UNCHANGED <<variant, apiKey, now, execs, workflowExecutions, pendingNodeExecutions,
                 runCalls, stepCalls, exports, proc, unhandled, probe>>

\* the setup, then the host at work with whatever the setup left installed
NextSetup ==
  \/ Setup
  \/ \E m \in {"processRunExecutionData", "runNode"} : OriginalCall(m)
  \/ \E w \in Workflows : BeginRun(w, SingleRun)
  \/ \E c \in DOMAIN runCalls : RunSettles(c, "fulfilled", RunResultOk)
  \/ \E w \in Workflows, sm \in LifecycleSamples : StepStart(w, sm, MaxSteps)
  \/ \E c \in DOMAIN stepCalls :
       StepSettles(c, "fulfilled", StepSamples[stepCalls[c].sample].result)

SpecSetup == InitSetup /\ [][NextSetup]_vars

(***************************************************************************)
(* The helpers of helpers.js called on their own                           *)
(***************************************************************************)
\* what a step can be handed, as far as extractUserInput reads it:
\*   wired, inc, foo: executionData.data.main[0][0].json exists, the fields
\*                    among chatInput, message, input it has, it has foo
\*   text, prompt, optInput: node.parameters.text, .prompt (none, a plain
\*                    string, the template =$json.foo), .options.input
\*   ran, hist:       the run history has an entry for the node, the fields
\*                    among chatInput, message its first item has
UserInputShapes ==
  {sh \in [wired : BOOLEAN, inc : SUBSET {"chatInput", "message", "input"},
           foo : BOOLEAN, text : BOOLEAN, prompt : {"none", "plain", "template"},
           optInput : BOOLEAN, ran : BOOLEAN, hist : SUBSET {"chatInput", "message"}] :
     /\ ~sh.wired => (sh.inc = {} /\ ~sh.foo)
     /\ ~sh.ran => sh.hist = {}}

\* the value of field k of the incoming item: "ic", "im", "ii", and foo: "bar"
IncomingValue(k) ==
  CASE k = "chatInput" -> Str(<<"i","c">>)
    [] k = "message"   -> Str(<<"i","m">>)
    [] k = "input"     -> Str(<<"i","i">>)
    [] OTHER           -> Str(<<"b","a","r">>)

\* the value of field k of the first item of the node's latest run: "hc", "hm"
HistoryValue(k) == IF k = "chatInput" THEN Str(<<"h","c">>) ELSE Str(<<"h","m">>)

\* the value of node.parameters[k]: "pt", "pp" or "=$json.foo", {input: "po"}
ParameterValue(sh, k) ==
  CASE k = "text"   -> Str(<<"p","t">>)
    [] k = "prompt" -> IF sh.prompt = "plain" THEN Str(<<"p","p">>)
                       ELSE Str(L_eq \o L_json \o <<"f","o","o">>)
    [] OTHER        -> Obj([input |-> Str(<<"p","o">>)])

\* [[{json: json}]]
MainOf(json) == Obj([main |-> Arr(<<Arr(<<Row(json)>>)>>)])

ShapeNode(sh) ==
  Obj([type |-> Str(L_openai), name |-> Str(<<"C","h","a","t">>),
       parameters |->
         Obj([k \in (IF sh.text THEN {"text"} ELSE {})
                    \cup (IF sh.prompt # "none" THEN {"prompt"} ELSE {})
                    \cup (IF sh.optInput THEN {"options"} ELSE {}) |->
                ParameterValue(sh, k)])])

ShapeExecutionData(sh) ==
  IF sh.wired
  THEN Obj([node |-> ShapeNode(sh),
            data |-> MainOf(Obj([k \in sh.inc \cup (IF sh.foo THEN {"foo"} ELSE {}) |->
                                   IncomingValue(k)]))])
  ELSE Obj([node |-> ShapeNode(sh)])

ShapeRunExecutionData(sh) ==
  IF sh.ran
  THEN Obj([resultData |-> Obj([runData |-> Obj([Chat |->
         Arr(<<Obj([data |-> MainOf(Obj([k \in sh.hist |-> HistoryValue(k)]))])>>)])])])
  ELSE RunExecutionData

\* the calls of extractUserInput(node, executionData, runExecutionData)
UserInputCalls ==
  {[fn |-> "extractUserInput",
    args |-> <<ShapeNode(sh), ShapeExecutionData(sh), ShapeRunExecutionData(sh)>>,
    shape |-> sh, done |-> FALSE, result |-> Undefined] : sh \in UserInputShapes}

\* the step descriptors detectModelInfo is given:
\*   type:     the declared type: "openai-chat", the LangChain agent, "set"
\*   dirModel: parameters.model is "claude"
\*   optModel: parameters.options.model is "mistral"
\*   cred:     the credential type the step carries, if any
ModelShapes ==
  [type : {"openai", "agent", "set"}, dirModel : BOOLEAN, optModel : BOOLEAN,
   cred : {"none", "openAiApi", "openaiApi", "anthropicApi"}]

ModelShapeParameters(sh) ==
  Obj([k \in (IF sh.dirModel THEN {"model"} ELSE {})
             \cup (IF sh.optModel THEN {"options"} ELSE {}) |->
         IF k = "model" THEN Str(L_claude) ELSE Obj([model |-> Str(L_mistral)])])

ModelShapeNode(sh) ==
  Obj([k \in {"type", "name", "parameters"}
             \cup (IF sh.cred # "none" THEN {"credentials"} ELSE {}) |->
         CASE k = "type" ->
                (CASE sh.type = "openai" -> Str(L_openai \o <<"-">> \o L_chat)
                   [] sh.type = "agent"  -> Str(L_langchainAgent)
                   [] OTHER              -> Str(<<"s","e","t">>))
           [] k = "name" -> Str(<<"S","t","e","p">>)
           [] k = "parameters" -> ModelShapeParameters(sh)
           [] OTHER -> Obj([c \in {sh.cred} |-> Obj([id |-> Str(<<"1">>)])])])

\* the calls of detectModelInfo(node)
ModelInfoCalls ==
  {[fn |-> "detectModelInfo", args |-> <<ModelShapeNode(sh)>>,
    shape |-> sh, done |-> FALSE, result |-> Undefined] : sh \in ModelShapes}

\* the expressions resolveExpression is given: values that are no strings,
\* strings without a leading "=", and templates
X_plain == Str(<<"p","l","a","i","n">>)

X_jsonFoo == Str(L_eq \o L_json \o <<"f","o","o">>)

X_jsonBaz == Str(L_eq \o L_json \o <<"b","a","z">>)

X_jsonBraced == Str(L_eq \o L_open \o <<" ">> \o L_json \o <<"f","o","o"," ">> \o L_close)

X_jsonInText == Str(L_eq \o <<"a"," ">> \o L_json \o <<"f","o","o">>)

X_text == Str(L_eq \o <<"h","i">>)

X_day == Str(L_eq \o L_open \o <<" ">> \o L_fmtDay \o <<" ">> \o L_close)

Expressions ==
  {Num(5), Null, Obj([foo |-> Str(<<"b","a","r">>)]), Str(<<>>), X_plain,
   Str(L_eq), X_text, X_jsonFoo, X_jsonBaz, X_jsonBraced, X_jsonInText, X_day}

\* the data contexts: {foo: "bar"}, {}, undefined
Contexts == {Obj([foo |-> Str(<<"b","a","r">>)]), EmptyObj, Undefined}

\* the calls of resolveExpression(expr, data)
ExpressionCalls ==
  {[fn |-> "resolveExpression", args |-> <<x, d>>,
    shape |-> <<>>, done |-> FALSE, result |-> Undefined] :
     x \in Expressions, d \in Contexts}

\* a helper is about to be called
InitCalls ==
  /\ variant = "modular"
  /\ apiKey = TRUE
  /\ now = 0
  /\ execs = <<>>
  /\ workflowExecutions = [k \in Keys |-> 0]
  /\ pendingNodeExecutions = [k \in Keys |-> <<>>]
  /\ runCalls = <<>>
  /\ stepCalls = <<>>
  /\ exports = <<>>
  /\ proc = "running"
  /\ unhandled = 0
  /\ probe \in UserInputCalls \cup ModelInfoCalls \cup ExpressionCalls
  /\ setup = Installed

\* extractUserInput returns
CallExtractUserInput ==
  /\ probe.fn = "extractUserInput"
  /\ ~probe.done
  /\ probe' = [probe EXCEPT !.done = TRUE,
                            !.result = extractUserInput(probe.args[1], probe.args[2],
                                                        probe.args[3])]
  /\ UNCHANGED <<setup, variant, apiKey, now, execs, workflowExecutions, pendingNodeExecutions,
                 runCalls, stepCalls, exports, proc, unhandled>>

\* detectModelInfo returns
CallDetectModelInfo ==
  /\ probe.fn = "detectModelInfo"
  /\ ~probe.done
  /\ probe' = [probe EXCEPT !.done = TRUE, !.result = detectModelInfo(probe.args[1])]
  /\ UNCHANGED <<setup, variant, apiKey, now, execs, workflowExecutions, pendingNodeExecutions,
                 runCalls, stepCalls, exports, proc, unhandled>>

\* resolveExpression returns
CallResolveExpression ==
  /\ probe.fn = "resolveExpression"
  /\ ~probe.done
  /\ probe' = [probe EXCEPT !.done = TRUE,
                            !.result = resolveExpression(probe.args[1], probe.args[2])]
  /\ UNCHANGED <<setup, variant, apiKey, now, execs, workflowExecutions, pendingNodeExecutions,
                 runCalls, stepCalls, exports, proc, unhandled>>

NextCalls ==
  \/ CallExtractUserInput
  \/ CallDetectModelInfo
  \/ CallResolveExpression

SpecCalls == InitCalls /\ [][NextCalls]_vars

(***************************************************************************)
(* The claims                                                              *)
(***************************************************************************)
\* where the records of step call c lie: <<run, position>> in the step
\* sequences of the runs, <<key, position>> in the orphan queues
RunPlaces(c) ==
  {p \in UNION {{<<e, i>> : i \in DOMAIN execs[e].spans} : e \in DOMAIN execs} :
     execs[p[1]].spans[p[2]].call = c}

OrphanPlaces(c) ==
  {p \in UNION {{<<k, i>> : i \in DOMAIN pendingNodeExecutions[k]} : k \in Keys} :
     pendingNodeExecutions[p[1]][p[2]].call = c}

\* the outputs of the records of step call c
RecordOutputs(c) ==
  {execs[p[1]].spans[p[2]].output : p \in RunPlaces(c)}
  \cup {pendingNodeExecutions[p[1]][p[2]].output : p \in OrphanPlaces(c)}

\* step call c was rejected with the host's own error and left exactly one
\* record, whose output is the text "Error: " followed by message
FailureRecorded(c, message) ==
  /\ stepCalls[c].wrapper = "rejected"
  /\ stepCalls[c].wrapperValue = stepCalls[c].hostValue
  /\ Cardinality(RunPlaces(c)) + Cardinality(OrphanPlaces(c)) = 1
  /\ RecordOutputs(c) = {[type |-> "text", value |-> Str(<<"E","r","r","o","r",":"," ">> \o message)]}

\* C1: whenever the host call of a wrapped step has fulfilled, the wrapper has
\* fulfilled with the host's result unchanged.
C1_StepFulfilsAsHost ==
  \A c \in DOMAIN stepCalls :
    stepCalls[c].host = "fulfilled" =>
      /\ stepCalls[c].wrapper = "fulfilled"
      /\ stepCalls[c].wrapperValue = stepCalls[c].hostValue

MessageOrName(e) ==
  IF Get(e, "message").s # <<>> THEN Get(e, "message").s ELSE <<"E","r","r","o","r">>

\* the run the wrapper of step call c finds under the step's run id, 0 when it
\* finds none: the modular wrapper looks when it appends, the direct one has
\* looked when the step started
RunFound(c) ==
  IF variant = "modular" THEN workflowExecutions[stepCalls[c].workflowId]
  ELSE stepCalls[c].execution

\* the record of step call c is appended to the run found, else to the orphan
\* queue of the step's run id
AppendedWhereFound(c) ==
  IF RunFound(c) # 0
  THEN /\ RunPlaces(c)' = {<<RunFound(c), Len(execs[RunFound(c)].spans) + 1>>}
       /\ OrphanPlaces(c)' = {}
  ELSE /\ OrphanPlaces(c)' = {<<stepCalls[c].workflowId,
                                Len(pendingNodeExecutions[stepCalls[c].workflowId]) + 1>>}
       /\ RunPlaces(c)' = {}

LatestRunId == IdOrUnknown(runCalls'[Len(runCalls')].workflow)

\* an orphan queue changes only by a record appended at its end or by
\* being emptied
QueueKeepsArrivalOrder(k) ==
  \/ pendingNodeExecutions'[k] = pendingNodeExecutions[k]
  \/ pendingNodeExecutions'[k] = <<>>
  \/ /\ Len(pendingNodeExecutions'[k]) = Len(pendingNodeExecutions[k]) + 1
     /\ SubSeq(pendingNodeExecutions'[k], 1, Len(pendingNodeExecutions[k]))
          = pendingNodeExecutions[k]

\* C3: the orphan queue of a run id keeps the records in arrival order, and
\* when a run is registered under that id its step sequence is exactly the
\* queue, first arrival at position 0, and the queue of that id is empty.
C3_OrphansAdopted ==
  [][/\ \A k \in Keys : QueueKeepsArrivalOrder(k)
     /\ Len(runCalls') = Len(runCalls) + 1 =>
          /\ execs'[Len(execs')].spans = pendingNodeExecutions[LatestRunId]
          /\ workflowExecutions'[LatestRunId] = Len(execs')
          /\ pendingNodeExecutions'[LatestRunId] = <<>>]_vars

\* a run that holds the records of two steps, both of which had started and
\* ended before the run was registered (the direct wrapper appends to the
\* queue whenever it found no run at the start of the step)
C3_Witness ==
  /\ variant = "direct"
  /\ \E e \in DOMAIN execs :
       /\ Len(execs[e].spans) = 2
       /\ execs[e].spans[1].call # execs[e].spans[2].call
       /\ \A i \in 1..2 :
            /\ execs[e].spans[i].call \in DOMAIN stepCalls
            /\ stepCalls[execs[e].spans[i].call].execution = 0
       /\ pendingNodeExecutions[IdOrUnknown(execs[e].workflow)] = <<>>

\* C4: once the send of a closed run has settled, with success or with
\* failure, no entry of the buffer holds that run.
C4_SettledRunRemoved ==
  \A t \in DOMAIN exports :
    exports[t].outcome # "pending" =>
      \A k \in Keys : workflowExecutions[k] # exports[t].exec

\* C5: the process has exited only if the send of every run the shutdown
\* handler closed has settled.
C5_ExitAwaitsForcedExports ==
  proc = "exited" =>
    \A t \in DOMAIN exports : exports[t].forced => exports[t].outcome # "pending"

\* the workflow-summary record appended when the run of send t was closed
SummaryOf(t) == execs[exports[t].exec].spans[exports[t].handed]

\* C6: when the host's promise of a run fulfils and the run is closed, the
\* summary record has output {success: false} if the result carries an error
\* and {success: true} only if it carries none.
C6_SummaryReflectsHostError ==
  \A c \in DOMAIN runCalls :
    (runCalls[c].host = "fulfilled" /\ runCalls[c].export # 0) =>
      SummaryOf(runCalls[c].export).output =
        [type |-> "json",
         value |-> Obj([success |-> Bool(runCalls[c].value # RunResultFailed)])]

\* C7: when the host's promise of a run rejects with e, that run is marked
\* complete, has been handed to a send, and its summary record has output
\* {error: e.message}.
C7_RejectedRunClosed ==
  \A c \in DOMAIN runCalls :
    runCalls[c].host = "rejected" =>
      /\ execs[runCalls[c].exec].isComplete
      /\ runCalls[c].export # 0
      /\ exports[runCalls[c].export].exec = runCalls[c].exec
      /\ SummaryOf(runCalls[c].export).output =
           [type |-> "json",
            value |-> Obj([error |-> Get(runCalls[c].value, "message")])]

\* C8: the wrapper calls the host with the arguments it was given, and the
\* promise its caller holds is settled exactly as the host's call is: same
\* state, same value or error, whatever closing and sending the run do.
C8_HostPromiseReturned ==
  \A c \in DOMAIN runCalls :
    /\ runCalls[c].hostArgs = runCalls[c].workflow
    /\ CallerView(c) = [state |-> runCalls[c].host, value |-> runCalls[c].value]

\* a run whose host call failed, was closed and sent, and whose send failed
\* too, next to a run whose host call fulfilled
C8_Witness ==
  \E c, d \in DOMAIN runCalls :
    /\ runCalls[c].host = "rejected"
    /\ runCalls[c].export # 0
    /\ exports[runCalls[c].export].outcome = "rejected"
    /\ runCalls[d].host = "fulfilled"
    /\ runCalls[d].value = RunResultFailed

\* C9: a failed send is logged, the task of the send still fulfils, no
\* rejection is left unhandled, and no caller of the wrapper sees a rejection
\* the host did not produce.
C9_ExportFailureSwallowed ==
  /\ unhandled = 0
  /\ \A t \in DOMAIN exports :
       /\ exports[t].task # "rejected"
       /\ exports[t].outcome = "rejected" =>
            (exports[t].logged /\ exports[t].task = "fulfilled")
  /\ \A c \in DOMAIN runCalls :
       CallerView(c).state = "rejected" => runCalls[c].host = "rejected"

\* a send that failed after a timeout and with its retries exhausted
C9_Witness ==
  \E t \in DOMAIN exports :
    /\ exports[t].outcome = "rejected"
    /\ exports[t].faults = maxRetries
    /\ exports[t].timeouts > 0
    /\ exports[t].logged

\* C10: whatever sends are in flight or waiting in backoff, a call of the
\* wrapped begin-run or execute-step whose host call has settled is settled
\* for its caller: no caller ever waits for a send.
C10_HostNeverWaitsForExport ==
  /\ \A c \in DOMAIN runCalls :
       runCalls[c].host # "pending" => CallerView(c).state # "pending"
  /\ \A c \in DOMAIN stepCalls :
       stepCalls[c].host \in {"fulfilled", "rejected"} => stepCalls[c].wrapper # "pending"

\* the first send waits in backoff and the second is in flight; the second
\* run was closed, and a step ended and was recorded in it, after the sends
\* had started
C10_Witness ==
  /\ Len(exports) = 2
  /\ exports[1].outcome = "pending" /\ exports[1].timers[2] > 0
  /\ exports[2].outcome = "pending" /\ exports[2].inflight[1] > 0
  /\ Len(runCalls) = 2 /\ runCalls[2].export = 2
  /\ CallerView(2).state = "fulfilled"
  /\ Len(stepCalls) = 1 /\ stepCalls[1].wrapper = "fulfilled"
  /\ \E i \in DOMAIN execs[exports[2].exec].spans :
       /\ i > exports[2].handed
       /\ execs[exports[2].exec].spans[i].call = 1

\* the responses of send t so far are k times 5xx and then 2xx
FailedThenAccepted(t, k) ==
  /\ Len(exports[t].responses) = k + 1
  /\ \A i \in 1..k : exports[t].responses[i] = "5xx"
  /\ exports[t].responses[k + 1] = "2xx"

\* C11: a send whose first k attempts ended with 5xx, k below the maximum
\* attempt count, and whose next attempt ended with 2xx has made exactly k + 1
\* attempts and is resolved.
C11_RetriedUntilAccepted ==
  \A t \in DOMAIN exports : \A k \in 0..(maxRetries - 1) :
    FailedThenAccepted(t, k) =>
      /\ Len(exports[t].sent) = k + 1
      /\ exports[t].outcome = "resolved"

\* 503, 503, 200: three attempts, resolved
C11_Witness ==
  \E t \in DOMAIN exports :
    /\ exports[t].responses = <<"5xx", "5xx", "2xx">>
    /\ Len(exports[t].sent) = 3
    /\ exports[t].outcome = "resolved"

\* C12: once an attempt of a send has ended with 4xx the send is rejected and
\* no further attempt of that send is made.
C12_ClientErrorEndsSend ==
  /\ [](\A t \in DOMAIN exports :
         (\E i \in DOMAIN exports[t].responses : exports[t].responses[i] = "4xx") =>
            exports[t].outcome = "rejected")
  /\ [][\A t \in DOMAIN exports :
          (\E i \in DOMAIN exports[t].responses : exports[t].responses[i] = "4xx") =>
             Len(exports'[t].sent) = Len(exports[t].sent)]_vars

\* C13: no send makes more attempts than the maximum attempt count.
C13_AttemptsBounded ==
  \A t \in DOMAIN exports : Len(exports[t].sent) <= maxRetries

\* C14: with no API key configured a send issues no request, ends without
\* an error, and the run it was handed is no longer in the buffer.
C14_NoKeyNoRequest ==
  ~apiKey =>
    \A t \in DOMAIN exports :
      /\ exports[t].sent = <<>>
      /\ exports[t].outcome = "resolved"
      /\ ~exports[t].logged
      /\ \A k \in Keys : workflowExecutions[k] # exports[t].exec

\* C15: when the process has ended on a termination signal, no run in the
\* buffer is open and the send of every closed run has settled.
C15_TerminationDrains ==
  proc = "terminated" =>
    /\ \A k \in Keys :
         workflowExecutions[k] # 0 => execs[workflowExecutions[k]].isComplete
    /\ \A t \in DOMAIN exports : exports[t].outcome # "pending"

\* the calls whose records lie in the step sequence of run e
CallsOf(e) == {execs[e].spans[i].call : i \in DOMAIN execs[e].spans}

\* the run registered in this step replaces the run held under its id: the
\* buffer holds the new run, open, with the queued records and none of the
\* replaced run's
Replaces ==
  /\ workflowExecutions'[LatestRunId] = Len(execs')
  /\ ~execs'[Len(execs')].isComplete
  /\ execs'[Len(execs')].spans = pendingNodeExecutions[LatestRunId]
  /\ \A i \in DOMAIN execs'[Len(execs')].spans :
       execs'[Len(execs')].spans[i].call \notin CallsOf(workflowExecutions[LatestRunId])

\* C16: a run registered under an id that already has a run in the buffer
\* replaces it: the buffer then holds the new run under that id, with a trace
\* id other than the replaced run's, open, and with a step sequence made of
\* the queued records only.
C16_BeginReplaces ==
  [][(Len(runCalls') = Len(runCalls) + 1 /\ workflowExecutions[LatestRunId] # 0) =>
       /\ Replaces
       /\ execs'[Len(execs')].traceId # execs[workflowExecutions[LatestRunId]].traceId]_vars

\* the record of step call c is appended to the run registered under the
\* step's run id at this moment, else to the orphan queue of that id
AppendedWhereRegistered(c) ==
  IF workflowExecutions[stepCalls[c].workflowId] # 0
  THEN /\ RunPlaces(c)' = {<<workflowExecutions[stepCalls[c].workflowId],
                             Len(execs[workflowExecutions[stepCalls[c].workflowId]].spans) + 1>>}
       /\ OrphanPlaces(c)' = {}
  ELSE /\ OrphanPlaces(c)' = {<<stepCalls[c].workflowId,
                                Len(pendingNodeExecutions[stepCalls[c].workflowId]) + 1>>}
       /\ RunPlaces(c)' = {}

\* C17: when the host call of a step with a step descriptor settles, the
\* step's record is appended to the run registered under the step's run id at
\* that moment, whether it was registered before or after the step started,
\* and to the orphan queue of that id only when no run is registered.
C17_RoutedAtCompletion ==
  [][\A c \in DOMAIN stepCalls :
       (/\ stepCalls[c].host = "pending"
        /\ stepCalls'[c].host # "pending"
        /\ ~stepCalls[c].passthrough) => AppendedWhereRegistered(c)]_vars

\* the host call of step call c settles in this step
SettlesNow(c) ==
  /\ c \in DOMAIN stepCalls
  /\ stepCalls[c].host = "pending"
  /\ stepCalls'[c].host # "pending"

\* C18: the step sequence of a run grows at its end only, and a step's record
\* enters it in the step in which the step's host call settles: the records
\* of a run stand in the order in which their host calls completed, whatever
\* the order in which the steps started.
C18_CompletionOrder ==
  [][\A e \in DOMAIN execs :
       /\ Len(execs'[e].spans) >= Len(execs[e].spans)
       /\ SubSeq(execs'[e].spans, 1, Len(execs[e].spans)) = execs[e].spans
       /\ \A i \in (Len(execs[e].spans) + 1)..Len(execs'[e].spans) :
            execs'[e].spans[i].call = 0 \/ SettlesNow(execs'[e].spans[i].call)]_vars

\* a run whose first record is of the step that started second and whose
\* second record is of the step that started first
C18_Witness ==
  \E e \in DOMAIN execs :
    /\ Len(execs[e].spans) >= 2
    /\ execs[e].spans[1].call = 2
    /\ execs[e].spans[2].call = 1
    /\ stepCalls[1].execution = e /\ stepCalls[2].execution = e

\* the step calls of run id k whose host call has settled
SettledSteps(k) ==
  {c \in DOMAIN stepCalls :
     /\ stepCalls[c].workflowId = k
     /\ ~stepCalls[c].passthrough
     /\ stepCalls[c].host \in {"fulfilled", "rejected"}}

\* no other run was ever registered under the id of run e
OnlyRunOfItsId(e) ==
  \A d \in DOMAIN execs :
    d # e => IdOrUnknown(execs[d].workflow) # IdOrUnknown(execs[e].workflow)

\* run e, closed in this step, is handed over as the step records it held,
\* in their order, followed by one workflow summary, and the first request
\* writes all of them
HandedOver(e, t) ==
  /\ exports'[t].handed = Len(execs'[e].spans)
  /\ SubSeq(execs'[e].spans, 1, exports'[t].handed - 1) = execs[e].spans
  /\ \A i \in 1..(exports'[t].handed - 1) :
       execs'[e].spans[i].type \in {"component", "llm"} /\ execs'[e].spans[i].call # 0
  /\ execs'[e].spans[exports'[t].handed].type = "workflow"
  /\ execs'[e].spans[exports'[t].handed].output =
       [type |-> "json", value |-> Obj([success |-> Bool(TRUE)])]
  /\ apiKey => exports'[t].sent = <<exports'[t].handed>>
  /\ (\A k \in Keys : pendingNodeExecutions[k] = <<>>) =>
       \A c \in SettledSteps(IdOrUnknown(execs[e].workflow)) :
         \E i \in 1..(exports'[t].handed - 1) : execs'[e].spans[i].call = c

\* C19: when a run whose host call fulfils without an error is closed, with
\* no other run under its id and no orphans, the trace handed to the send is
\* the records of the steps that have completed, in completion order, followed
\* by exactly one workflow summary, the last span, with output {success: true}.
C19_TraceIsStepsThenSummary ==
  [][(Len(exports') = Len(exports) + 1 /\ OnlyRunOfItsId(exports'[Len(exports')].exec)) =>
       HandedOver(exports'[Len(exports')].exec, Len(exports'))]_vars

\* run 42: a component record, an llm record, the summary
C19_Witness ==
  \E t \in DOMAIN exports :
    /\ exports[t].sent = <<3>>
    /\ execs[exports[t].exec].workflow = WfSaved
    /\ execs[exports[t].exec].spans[1].type = "component"
    /\ execs[exports[t].exec].spans[2].type = "llm"
    /\ execs[exports[t].exec].spans[3].type = "workflow"
    /\ execs[exports[t].exec].spans[3].output =
         [type |-> "json", value |-> Obj([success |-> Bool(TRUE)])]

\* C20: every request of one send writes the same spans as the first request
\* of that send, whatever is appended to the run between the attempts.
C20_RetriesSendSameSpans ==
  \A t \in DOMAIN exports :
    \A i \in DOMAIN exports[t].sent : exports[t].sent[i] = exports[t].sent[1]

\* C21: within a run's step sequence no two step records share a span id; a
\* record whose span id is already in the sequence replaces the record there.
C21_SpanIdUnique ==
  \A e \in DOMAIN execs :
    \A i, j \in DOMAIN execs[e].spans :
      (/\ i # j
       /\ execs[e].spans[i].call # 0
       /\ execs[e].spans[j].call # 0) => execs[e].spans[i].span_id # execs[e].spans[j].span_id

\* C22: a run whose descriptor carries no id lives under "unknown": while its
\* host call is pending it is the run registered under "unknown"; once the
\* host call has settled it is complete and handed to a send; once that send
\* has succeeded no entry of the buffer holds it.
C22_NoIdRunIsUnknown ==
  \A c \in DOMAIN runCalls :
    (runCalls[c].workflow = WfNoId /\ OnlyRunOfItsId(runCalls[c].exec)) =>
      /\ runCalls[c].host = "pending" =>
            workflowExecutions[Str(L_unknown)] = runCalls[c].exec
      /\ runCalls[c].host # "pending" =>
            /\ execs[runCalls[c].exec].isComplete
            /\ runCalls[c].export # 0
            /\ exports[runCalls[c].export].exec = runCalls[c].exec
            /\ exports[runCalls[c].export].outcome = "resolved" =>
                  \A k \in Keys : workflowExecutions[k] # runCalls[c].exec

\* the key under which the continuation of run call c closes a run
CloseKey(c) ==
  IF variant = "modular" THEN Get(runCalls[c].workflow, "id")
  ELSE IdOrUnknown(runCalls[c].workflow)

\* the workflow summaries among the spans of run e
Summaries(e) == {i \in DOMAIN execs[e].spans : execs[e].spans[i].type = "workflow"}

\* C23: closing is not idempotent: when the run registered under a run id is
\* closed while it is already complete, one more workflow summary is appended
\* to its step sequence, which then holds at least two.
C23_CloseTwiceTwoSummaries ==
  [][\A c \in DOMAIN runCalls :
       (/\ runCalls[c].host = "pending"
        /\ runCalls'[c].host # "pending"
        /\ workflowExecutions[CloseKey(c)] # 0
        /\ execs[workflowExecutions[CloseKey(c)]].isComplete) =>
         /\ Len(execs'[workflowExecutions[CloseKey(c)]].spans) =
              Len(execs[workflowExecutions[CloseKey(c)]].spans) + 1
         /\ SubSeq(execs'[workflowExecutions[CloseKey(c)]].spans, 1,
                   Len(execs[workflowExecutions[CloseKey(c)]].spans)) =
              execs[workflowExecutions[CloseKey(c)]].spans
         /\ execs'[workflowExecutions[CloseKey(c)]].spans[
              Len(execs'[workflowExecutions[CloseKey(c)]].spans)].type = "workflow"
         /\ Cardinality(Summaries(workflowExecutions[CloseKey(c)])) >= 1]_vars

\* a run closed twice holds two workflow summaries
C23_Witness ==
  \E e \in DOMAIN execs :
    /\ Cardinality(Summaries(e)) = 2
    /\ \E c, d \in DOMAIN runCalls :
         c # d /\ runCalls[c].host # "pending" /\ runCalls[d].host # "pending"

\* run e is closed in this step with a summary whose output is {success: true}
ClosedAsSuccess(e) ==
  /\ execs'[e].isComplete
  /\ Len(execs'[e].spans) = Len(execs[e].spans) + 1
  /\ SubSeq(execs'[e].spans, 1, Len(execs[e].spans)) = execs[e].spans
  /\ execs'[e].spans[Len(execs'[e].spans)].type = "workflow"
  /\ execs'[e].spans[Len(execs'[e].spans)].output =
       [type |-> "json", value |-> Obj([success |-> Bool(TRUE)])]

\* C24: when the shutdown drain runs, every run of the buffer that is still
\* open is closed with a summary of output {success: true} appended to what
\* its steps have recorded so far, and is complete.
C24_DrainForceCloses ==
  [][(proc = "running" /\ proc' = "flushing") =>
       \A k \in Keys :
         (workflowExecutions[k] # 0 /\ ~execs[workflowExecutions[k]].isComplete) =>
           ClosedAsSuccess(workflowExecutions[k])]_vars

\* an open run that holds a step record has been force-closed
C24_Witness ==
  /\ proc = "flushing"
  /\ \E t \in DOMAIN exports :
       /\ exports[t].forced
       /\ exports[t].handed = 2
       /\ execs[exports[t].exec].spans[1].call # 0
       /\ execs[exports[t].exec].spans[2].output =
            [type |-> "json", value |-> Obj([success |-> Bool(TRUE)])]

\* C25: isAINode returns a boolean for every step descriptor, whatever the
\* kind of its fields, so every call of the wrapper for a step reaches the
\* host's runNode.
C25_ClassifierTotal ==
  \A c \in DOMAIN stepCalls :
    /\ isAINode(Get(StepSamples[stepCalls[c].sample].executionData, "node")).ok
    /\ stepCalls[c].host # "notcalled"

\* the priority table: where a candidate comes from, its priority, and its
\* value with the template resolved against the incoming JSON
PriorityTable(sh) ==
  {[present |-> "chatInput" \in sh.inc, priority |-> 10, value |-> IncomingValue("chatInput")],
   [present |-> "message" \in sh.inc, priority |-> 9, value |-> IncomingValue("message")],
   [present |-> "input" \in sh.inc, priority |-> 8, value |-> IncomingValue("input")],
   [present |-> "chatInput" \in sh.hist, priority |-> 7, value |-> HistoryValue("chatInput")],
   [present |-> "message" \in sh.hist, priority |-> 6, value |-> HistoryValue("message")],
   [present |-> sh.optInput, priority |-> 6, value |-> Str(<<"p","o">>)],
   [present |-> sh.prompt = "plain", priority |-> 4, value |-> Str(<<"p","p">>)],
   [present |-> sh.prompt = "template", priority |-> 4,
    value |-> IF sh.foo THEN IncomingValue("foo") ELSE Str(L_json \o <<"f","o","o">>)],
   [present |-> sh.text, priority |-> 3, value |-> Str(<<"p","t">>)],
   [present |-> sh.wired, priority |-> 1,
    value |-> Obj([k \in sh.inc \cup (IF sh.foo THEN {"foo"} ELSE {}) |-> IncomingValue(k)])]}

\* the values of the candidates present that no candidate present outranks
BestValues(sh) ==
  {c.value : c \in {d \in PriorityTable(sh) :
     d.present /\ \A o \in PriorityTable(sh) : o.present => o.priority <= d.priority}}

\* C26: extractUserInput returns the template-resolved value of the candidate
\* of the highest priority among the candidates present, and the empty string
\* when none is present; it always returns.
C26_HighestPriorityWins ==
  (probe.fn = "extractUserInput" /\ probe.done) =>
    IF BestValues(probe.shape) = {} THEN probe.result = Str(<<>>)
    ELSE probe.result \in BestValues(probe.shape)

\* candidates at priorities 10, 8 and 3: the incoming chatInput is returned
C26_Witness ==
  /\ probe.fn = "extractUserInput"
  /\ probe.done
  /\ probe.shape.inc = {"chatInput", "input"}
  /\ probe.shape.text
  /\ probe.shape.prompt = "none" /\ ~probe.shape.optInput /\ ~probe.shape.ran
  /\ probe.result = IncomingValue("chatInput")

\* the records built for steps whose wrapper fulfilled, in the runs and in
\* the orphan queues
StepRecords ==
  {s \in UNION ({{execs[e].spans[i] : i \in DOMAIN execs[e].spans} : e \in DOMAIN execs}
               \cup {{pendingNodeExecutions[k][i] : i \in DOMAIN pendingNodeExecutions[k]} :
                       k \in Keys}) :
     s.call # 0 /\ stepCalls[s.call].wrapper = "fulfilled"}

\* the text of the first message of the given role in a record's input
MessageOf(s, role) ==
  IF s.input.type # "chat_messages" THEN Str(<<>>)
  ELSE IF \E i \in DOMAIN s.input.value.a : Get(s.input.value.a[i], "role") = role
  THEN Get(s.input.value.a[CHOOSE i \in DOMAIN s.input.value.a :
                             Get(s.input.value.a[i], "role") = role], "content")
  ELSE Str(<<>>)

\* C27: every llm record carries token metrics with the three counters; for
\* a step whose output reports no usage they are the estimates of
\* ceil(length / 4): prompt = est(system message) + est(user input),
\* completion = est(output), total = prompt + completion.
C27_LlmRecordHasMetrics ==
  \A s \in StepRecords :
    s.type = "llm" =>
      /\ s.metrics # Undefined
      /\ stepCalls[s.call].sample = "chat" =>
            s.metrics =
              Obj([prompt_tokens |-> Num(estimateTokenCount(MessageOf(s, "system"))
                                         + estimateTokenCount(MessageOf(s, "user"))),
                   completion_tokens |-> Num(estimateTokenCount(s.output.value)),
                   total_tokens |-> Num(estimateTokenCount(MessageOf(s, "system"))
                                        + estimateTokenCount(MessageOf(s, "user"))
                                        + estimateTokenCount(s.output.value))])

\* C28: for a step whose declared type contains "openai" the vendor is
\* openai, and the model is the one configured, in the direct model field or
\* else in options.model; the default gpt-4 stands in only when neither
\* names a model.
C28_ConfiguredModelKept ==
  (probe.fn = "detectModelInfo" /\ probe.done /\ probe.shape.type = "openai") =>
    /\ probe.result.vendor = Str(L_openai)
    /\ probe.result.model =
         IF probe.shape.dirModel THEN Str(L_claude)
         ELSE IF probe.shape.optModel THEN Str(L_mistral)
         ELSE Str(L_gpt4)

\* a string with a leading "="
IsTemplate(x) == x.t = "string" /\ x.s # <<>> /\ Head(x.s) = "="

\* the template without its leading "="
Stripped(x) == Str(Tail(x.s))

C30_RemovesOnlyExported ==
  [][\A t \in DOMAIN exports :
       (exports[t].outcome = "pending" /\ exports'[t].outcome # "pending") =>
         \A k \in Keys :
           (workflowExecutions[k] # 0 /\ workflowExecutions[k] # exports[t].exec) =>
             workflowExecutions'[k] = workflowExecutions[k]]_vars

\* the run that executed step call c: the run registered under the step's run
\* id when the step started, 0 when none was
RunOfStep(c) == stepCalls[c].execution

\* C31: a step record lies in the step sequence, and so in the trace, of the
\* run that executed the step and of no other run, also when a second run is
\* registered under the same run id before the step completes.
C31_RecordInOwnRun ==
  \A e \in DOMAIN execs : \A i \in DOMAIN execs[e].spans :
    (execs[e].spans[i].call # 0 /\ RunOfStep(execs[e].spans[i].call) # 0) =>
      RunOfStep(execs[e].spans[i].call) = e

\* the number of places, in the step sequences of the runs and in the orphan
\* queues, where a record of step call c lies
PlacesOf(c) == Cardinality(RunPlaces(c)) + Cardinality(OrphanPlaces(c))

\* C32: a step call that carries a step descriptor and whose host call has
\* settled has exactly one record, in the step sequence of one run or in one
\* orphan queue; a step call whose host call has not settled, or that carries
\* no descriptor, has none; registering a run, which drains the queue of its
\* id, keeps it so.
C32_RecordsConserved ==
  \A c \in DOMAIN stepCalls :
    PlacesOf(c) =
      IF stepCalls[c].host \in {"fulfilled", "rejected"} /\ ~stepCalls[c].passthrough
      THEN 1 ELSE 0

\* the record of a failed step, queued because no run was registered, has
\* been drained into a run, while the record of another step waits in the
\* orphan queue of another run id
C32_Witness ==
  \E c, d \in DOMAIN stepCalls :
    /\ stepCalls[c].host = "rejected"
    /\ RunOfStep(c) = 0
    /\ RunPlaces(c) # {} /\ OrphanPlaces(c) = {}
    /\ stepCalls[d].host = "fulfilled"
    /\ OrphanPlaces(d) # {} /\ RunPlaces(d) = {}

\* the name in the step descriptor of step call c
StepName(c) == Get(Get(StepSamples[stepCalls[c].sample].executionData, "node"), "name")

\* C33: in the step sequence of every run the span id of a step record is
\* the run's trace id followed by "-node-" and the step name, and the span id
\* of a summary is the run's trace id followed by "-workflow"; records that
\* came from the orphan queue included.
C33_SpanIdOfRun ==
  \A e \in DOMAIN execs : \A i \in DOMAIN execs[e].spans :
    /\ execs[e].spans[i].span_id.traceId = execs[e].traceId
    /\ IF execs[e].spans[i].call = 0
       THEN execs[e].spans[i].span_id.suffix = "-workflow"
       ELSE execs[e].spans[i].span_id.suffix = StepName(execs[e].spans[i].call)

\* the sends run e was handed to
SendsOf(e) == {t \in DOMAIN exports : exports[t].exec = e}

\* C34: a run that has been closed once has been handed to exactly one send,
\* also when the shutdown drain runs while that send is in flight.
C34_ClosedOnceSentOnce ==
  \A e \in DOMAIN execs :
    Cardinality(Summaries(e)) = 1 => Cardinality(SendsOf(e)) = 1

\* send t has settled; it has settled and has no request in flight and no
\* backoff timer waiting
Settled(t) == t \in DOMAIN exports /\ exports[t].outcome # "pending"

Quiet(t) ==
  /\ Settled(t)
  /\ \A a \in 1..maxRetries : exports[t].inflight[a] = 0 /\ exports[t].timers[a] = 0

\* the response that arrives in this step to a request of send t
ArrivingResponse(t) == exports'[t].responses[Len(exports'[t].responses)]

\* how a pending send goes on after a response to its attempt a
SettlesAs(response, a) ==
  CASE response = "2xx" -> "resolved"
    [] response = "4xx" -> "rejected"
    [] OTHER -> IF a >= MaxAttempts(variant) THEN "rejected" ELSE "pending"

\* C35: every send eventually settles, and eventually has nothing in flight
\* and no retry waiting, when every request gets a response, a connection
\* error or a timeout; a pending send resolves on a 2xx response, rejects on
\* a 4xx response, rejects on any other response to its last attempt, and
\* otherwise stays pending for the next attempt.
C35_SendSettles ==
  /\ \A t \in 1..SingleRun : (t \in DOMAIN exports) ~> Quiet(t)
  /\ [][\A t \in DOMAIN exports : \A a \in 1..maxRetries :
          (/\ exports[t].outcome = "pending"
           /\ Len(exports'[t].responses) = Len(exports[t].responses) + 1
           /\ exports'[t].inflight[a] = exports[t].inflight[a] - 1) =>
             exports'[t].outcome = SettlesAs(ArrivingResponse(t), a)]_vars

\* a send rejected once its third attempt had failed: 5xx, connection error,
\* 5xx, and nothing left in flight
C35_Witness ==
  \E t \in DOMAIN exports :
    /\ exports[t].responses = <<"5xx", "error", "5xx">>
    /\ exports[t].outcome = "rejected"
    /\ Quiet(t)

\* C36: the timer set when attempt n of a send has failed has the delay 2^n
\* seconds, 2 s after the first attempt and 4 s after the second, and a
\* request of attempt n + 1 is issued only by such a timer once it has waited
\* that long.
C36_BackoffDoubles ==
  /\ [](\A t \in DOMAIN exports : \A a \in 1..maxRetries :
         \A i \in DOMAIN exports[t].backoff[a] :
           /\ a > 1
           /\ exports[t].backoff[a][i].delay = 2 ^ (a - 1) * 1000
           /\ exports[t].backoff[a][i].delay = IF a = 2 THEN 2000 ELSE 4000)
  /\ [][\A t \in DOMAIN exports : \A a \in 1..maxRetries :
          exports'[t].inflight[a] = exports[t].inflight[a] + 1 =>
            /\ exports[t].backoff[a] # <<>>
            /\ Head(exports[t].backoff[a]).waited >= 2 ^ (a - 1) * 1000]_vars

\* the third attempt of a send is in flight, six seconds after the first
\* attempt failed: 2 s of backoff, then 4 s
C36_Witness ==
  \E t \in DOMAIN exports :
    /\ exports[t].responses = <<"5xx", "5xx">>
    /\ exports[t].inflight[3] = 1
    /\ now = 6000

\* C37: a workflow summary starts at the registration time of its run and
\* does not end before it starts, and every step record that stands before it
\* in the run's step sequence starts and ends within the summary's interval.
C37_SummarySpansRun ==
  \A e \in DOMAIN execs : \A i \in Summaries(e) :
    /\ execs[e].spans[i].started_at = execs[e].startedAt
    /\ execs[e].spans[i].finished_at >= execs[e].spans[i].started_at
    /\ \A j \in 1..(i - 1) :
         execs[e].spans[j].call # 0 =>
           /\ execs[e].spans[i].started_at <= execs[e].spans[j].started_at
           /\ execs[e].spans[j].started_at <= execs[e].spans[j].finished_at
           /\ execs[e].spans[j].finished_at <= execs[e].spans[i].finished_at

\* the setup is over and did not install both wrappers
SetupFailed ==
  /\ setup.pc # "start"
  /\ setup.installed # {"processRunExecutionData", "runNode"}

\* C39: when installing the wrappers has failed, the failure is logged, no
\* method of the host holds a wrapper, no error has left the setup, and the
\* host is running.
C39_FailedSetupLeavesHost ==
  SetupFailed =>
    /\ setup.errors > 0
    /\ setup.installed = {}
    /\ ~setup.raised
    /\ setup.pc = "running"

\* the run ids the operations of this step are for: of the runs begun or
\* settled, of the steps started or settled, of the sends started, answered
\* or retried
OperationKeys ==
  {IdOrUnknown(runCalls'[c].workflow) :
     c \in {d \in DOMAIN runCalls' : d \notin DOMAIN runCalls \/ runCalls'[d] # runCalls[d]}}
  \cup {stepCalls'[c].workflowId :
          c \in {d \in DOMAIN stepCalls' : d \notin DOMAIN stepCalls \/ stepCalls'[d] # stepCalls[d]}}
  \cup {IdOrUnknown(execs'[exports'[t].exec].workflow) :
          t \in {u \in DOMAIN exports' : u \notin DOMAIN exports \/ exports'[u] # exports[u]}}

\* C38: beginning a run, appending a step record, closing a run, a send and
\* the removal after it, for one run id, leave under every other run id the
\* buffer entry, the run registered there and the orphan queue as they were.
C38_OtherRunIdsUntouched ==
  [][\A k \in Keys \ OperationKeys :
       /\ workflowExecutions'[k] = workflowExecutions[k]
       /\ pendingNodeExecutions'[k] = pendingNodeExecutions[k]
       /\ workflowExecutions[k] # 0 =>
            execs'[workflowExecutions[k]] = execs[workflowExecutions[k]]]_vars

\* the run of id 42 has been closed, sent and removed while the run without
\* an id is still registered, open, holding the record of its step
C38_Witness ==
  /\ \E t \in DOMAIN exports :
       /\ exports[t].outcome = "resolved"
       /\ execs[exports[t].exec].workflow = WfSaved
  /\ workflowExecutions[Str(L_42)] = 0
  /\ workflowExecutions[Str(L_unknown)] # 0
  /\ ~execs[workflowExecutions[Str(L_unknown)]].isComplete
  /\ Len(execs[workflowExecutions[Str(L_unknown)]].spans) = 1

====
